---------------------------- MODULE Spec2Model ----------------------------
(***************************************************************************)
(* A model of the pulses dashboards INDIA1.py and app1.py: the state-name  *)
(* normalisation, the fabrication of district values from state totals,    *)
(* the GeoJSON state filter of app1 and the year extraction of the data    *)
(* loaders.                                                                *)
(*                                                                         *)
(* A name is the sequence of its characters (one-character strings), so    *)
(* that strip, upper and replace act on it as Python's do.  A number that  *)
(* pandas may hold as NaN is a record [nan, val].                          *)
(***************************************************************************)
EXTENDS Integers, Sequences, FiniteSets, TLC

VARIABLES
    \* --- name normalisation (INDIA1.py 95, 107, 154; app1.py 120)
    raw_name,        \* the name as it stands in the input file
    geo_State_Name,  \* gdf["State_Name"] of the states shapefile, normalised
    dist_ST_NM,      \* gdf["ST_NM"] of the districts shapefile, normalised
    pulses_State,    \* df_pulses_raw["State"], normalised
    app1_State,      \* df["State"] of app1 after the mapping
    renormalized,    \* the normalisation applied to pulses_State once more
    norm_done,       \* which of the steps above have run
    \* --- district fabrication (INDIA1.py 286-602)
    df_pulses,                 \* the filtered metric table: rows [State, Year, Value]
    gdf_districts,             \* the district geometry table: rows [ST_NM, DISTRICT]
    selected_state_map,        \* the state chosen in the sidebar, or "None"
    pc,                        \* the statement the run has reached
    years_left,                \* the years the running for-loop has yet to take
    rows_left,                 \* the rows iterrows() has yet to yield
    state_total_value,         \* loop local, as last assigned
    n_districts,               \* loop local, as last assigned
    normalized_state,          \* the join key of the state whose districts were
                               \* last counted (normalized_selected_state in the
                               \* state map, normalized_state_name_data in the full map)
    dummy_values,              \* loop local (dummy_values_for_year / dummy_values)
    animated_state_district_data,      \* list of the state map's per-year temp_df
    merged_district_gdf,               \* the table the state map draws
    temp_gdf_districts_year,           \* the full map's frame under construction
    animated_full_india_district_data, \* list of the full map's finished frames
    animated_full_india_districts_gdf, \* the table the full map draws
    draws,                     \* calls of np.random.dirichlet so far
    run_error,                 \* an exception has ended the run
    \* --- app1.py: loading and the GeoJSON state filter (77-163)
    csv_State,                 \* the State column as read from the CSV files
    geojson_loaded,            \* load_geojson returned the GeoJSON, not None
    geojson_state_names,       \* the ST_NM of the GeoJSON's features
    df_combined,               \* the data table: rows [State]
    standardized_geojson_names,
    app_pc,                    \* the statement app1 has reached
    \* --- year extraction (INDIA1.py 145-149; app1.py 111-117)
    year_cell,                 \* a cell of the Year column as read
    india1_Year,               \* what INDIA1 makes of the cell
    app1_Year,                 \* what app1 makes of the cell
    year_done,                 \* which of the two loaders have run
    \* --- one run of INDIA1.py: loading, decade filter and the sections (118-779)
    xl_rows,                   \* the sheet as pd.read_excel returns it
    season,                    \* the season chosen in the sidebar
    df_pulses_raw,             \* the cleaned table: rows [State, Year, Value]
    decade_options,            \* the decade strings offered
    selected_decade_range,     \* the decade chosen, << >> when none was offered
    india1_df_pulses,          \* df_pulses of the run: rows [State, Year, Value]
    india1_selected_state,     \* selected_state_map of the run
    messages,                  \* the st.warning / st.info / st.error calls made
    maps,                      \* the charts handed to st.plotly_chart
    state_geometry,            \* what gdf_districts holds for the selected state
    load_pc,                   \* the statement the run has reached
    \* --- numpy's global random stream over the reruns of INDIA1.py (350, 588, 700-711)
    np_random_state,           \* the state of np.random's global generator
    run_no,                    \* which run of the script this is
    draws_this_run,            \* dirichlet calls of the run so far
    proportions,               \* the variates the last dirichlet call took
    selected_district_for_line_plot,
    district_trend_simulated_df,   \* rows [Year, Value, District] of the run
    rng_pc,                    \* the section the run has reached
    \* --- a session of reruns of one of the scripts: files, st.cache_data,
    \* --- st.session_state and app1's controls (INDIA1.py 86-138, app1.py 77-313)
    script,                    \* the script the session runs: "INDIA1" or "app1"
    files_present,             \* the files that exist on disk
    csv_state,                 \* the State cell of the rows of the CSV files
    csv_years,                 \* the Year cells of the rows of each CSV file
    geojson_fetched,           \* load_geojson gets the GeoJSON (None otherwise)
    file_reads,                \* how often each file was read in the session
    cache_data,                \* st.cache_data: what each cached function stored
    body_runs,                 \* how often the body of each cached function ran
    sess_run,                  \* which run of the script this is
    trigger,                   \* the interaction that started the run
    sess_pc,                   \* the statement the run has reached
    run_df_combined,           \* the run's df_combined / df_pulses_raw object
    run_geojson_data,          \* the run's geojson_data
    run_gdf_districts,         \* the run's gdf_districts object
    session_state,             \* st.session_state: playing, current_year_idx
    selected_pulse_type_season,
    run_years,                 \* the run's list years
    year_slider_value,
    sess_messages,             \* the st.error / st.warning / st.info of the run
    sess_rendered,             \* the controls and charts the run has rendered
    animated_years,            \* the years the loop drew since the index was last set
    \* --- the columns of the district shapefile in a run of INDIA1.py (294-692)
    gdf_columns,               \* gdf_districts.columns, in the file's order
    col_has_rows,              \* df_pulses has rows
    col_selected_state,        \* selected_state_map
    state_col,                 \* the detected columns, or no column
    district_col,
    normalized_defined,        \* normalized_selected_state has been assigned
    col_messages,              \* messages shown
    col_maps,                  \* figures built
    col_raised,                \* the exception that ended the run, if any
    col_pc,                    \* the section the run has reached
    \* --- the decade options generated from the years of the data (INDIA1.py 156-174)
    dec_years,                 \* the years of df_pulses_raw
    dec_min_year,              \* min_year, max_year
    dec_max_year,
    dec_current_decade_start,      \* the loop's variable
    dec_decade_options,        \* decade_options so far
    dec_pc                     \* where the generation stands

normVars == << raw_name, geo_State_Name, dist_ST_NM, pulses_State, app1_State,
               renormalized, norm_done >>

fabVars == << df_pulses, gdf_districts, selected_state_map, pc, years_left,
              rows_left, state_total_value, n_districts, normalized_state,
              dummy_values, animated_state_district_data, merged_district_gdf,
              temp_gdf_districts_year, animated_full_india_district_data,
              animated_full_india_districts_gdf, draws, run_error >>

appVars == << csv_State, geojson_loaded, geojson_state_names, df_combined,
              standardized_geojson_names, app_pc >>

yearVars == << year_cell, india1_Year, app1_Year, year_done >>

loadVars == << xl_rows, season, df_pulses_raw, decade_options,
               selected_decade_range, india1_df_pulses, india1_selected_state,
               messages, maps, state_geometry, load_pc >>

rngVars == << np_random_state, run_no, draws_this_run, proportions,
              selected_district_for_line_plot, district_trend_simulated_df, rng_pc >>

sessVars == << script, files_present, csv_state, csv_years, geojson_fetched,
               file_reads, cache_data, body_runs, sess_run, trigger, sess_pc,
               run_df_combined, run_geojson_data, run_gdf_districts,
               session_state, selected_pulse_type_season, run_years,
               year_slider_value, sess_messages, sess_rendered, animated_years >>

colVars == << gdf_columns, col_has_rows, col_selected_state, state_col, district_col,
              normalized_defined, col_messages, col_maps, col_raised, col_pc >>

decVars == << dec_years, dec_min_year, dec_max_year, dec_current_decade_start,
              dec_decade_options, dec_pc >>

vars == << normVars, fabVars, appVars, yearVars, loadVars, rngVars, sessVars, colVars, decVars >>

\* What a step of one part of the program leaves alone.
notNormVars == << fabVars, appVars, yearVars, loadVars, rngVars, sessVars, colVars, decVars >>

notFabVars == << normVars, appVars, yearVars, loadVars, rngVars, sessVars, colVars, decVars >>

notAppVars == << normVars, fabVars, yearVars, loadVars, rngVars, sessVars, colVars, decVars >>

notYearVars == << normVars, fabVars, appVars, loadVars, rngVars, sessVars, colVars, decVars >>

notLoadVars == << normVars, fabVars, appVars, yearVars, rngVars, sessVars, colVars, decVars >>

notRngVars == << normVars, fabVars, appVars, yearVars, loadVars, sessVars, colVars, decVars >>

notSessVars == << normVars, fabVars, appVars, yearVars, loadVars, rngVars, colVars, decVars >>

notColVars == << normVars, fabVars, appVars, yearVars, loadVars, rngVars, sessVars, decVars >>

notDecVars == << normVars, fabVars, appVars, yearVars, loadVars, rngVars, sessVars, colVars >>

\* A number pandas may hold as NaN.
NaN == [nan |-> TRUE, val |-> 0]

Num(v) == [nan |-> FALSE, val |-> v]

\* Python's None.
PyNone == "<None>"

\* The parts of the program a specification does not exercise stay as they are
\* before their first statement.
NormIdle ==
    /\ raw_name = << >>
    /\ geo_State_Name = << >>
    /\ dist_ST_NM = << >>
    /\ pulses_State = << >>
    /\ app1_State = << >>
    /\ renormalized = << >>
    /\ norm_done = {}

FabIdle ==
    /\ df_pulses = << >>
    /\ gdf_districts = << >>
    /\ selected_state_map = << >>
    /\ pc = "idle"
    /\ years_left = << >>
    /\ rows_left = << >>
    /\ state_total_value = NaN
    /\ n_districts = 0
    /\ normalized_state = << >>
    /\ dummy_values = << >>
    /\ animated_state_district_data = << >>
    /\ merged_district_gdf = << >>
    /\ temp_gdf_districts_year = << >>
    /\ animated_full_india_district_data = << >>
    /\ animated_full_india_districts_gdf = << >>
    /\ draws = 0
    /\ run_error = FALSE

AppIdle ==
    /\ csv_State = << >>
    /\ geojson_loaded = FALSE
    /\ geojson_state_names = {}
    /\ df_combined = << >>
    /\ standardized_geojson_names = {}
    /\ app_pc = "idle"

\* The outcome of a conversion of one cell: kept with a value, dropped with
\* its row, or an exception raised; "unset" before the conversion.
Unset == [outcome |-> "unset", val |-> 0]

YearIdle ==
    /\ year_cell = << >>
    /\ india1_Year = Unset
    /\ app1_Year = Unset
    /\ year_done = {}

LoadIdle ==
    /\ xl_rows = << >>
    /\ season = << >>
    /\ df_pulses_raw = << >>
    /\ decade_options = << >>
    /\ selected_decade_range = << >>
    /\ india1_df_pulses = << >>
    /\ india1_selected_state = << >>
    /\ messages = {}
    /\ maps = {}
    /\ state_geometry = "unread"
    /\ load_pc = "idle"

RngIdle ==
    /\ np_random_state = << >>
    /\ run_no = 0
    /\ draws_this_run = 0
    /\ proportions = << >>
    /\ selected_district_for_line_plot = PyNone
    /\ district_trend_simulated_df = << >>
    /\ rng_pc = "idle"

SessIdle ==
    /\ script = "none"
    /\ files_present = {}
    /\ csv_state = << >>
    /\ csv_years = << >>
    /\ geojson_fetched = FALSE
    /\ file_reads = << >>
    /\ cache_data = << >>
    /\ body_runs = << >>
    /\ sess_run = 0
    /\ trigger = "none"
    /\ sess_pc = "idle"
    /\ run_df_combined = << >>
    /\ run_geojson_data = << >>
    /\ run_gdf_districts = << >>
    /\ session_state = << >>
    /\ selected_pulse_type_season = PyNone
    /\ run_years = << >>
    /\ year_slider_value = 0
    /\ sess_messages = {}
    /\ sess_rendered = {}
    /\ animated_years = << >>

ColIdle ==
    /\ gdf_columns = << >>
    /\ col_has_rows = FALSE
    /\ col_selected_state = << >>
    /\ state_col = << >>
    /\ district_col = << >>
    /\ normalized_defined = FALSE
    /\ col_messages = {}
    /\ col_maps = {}
    /\ col_raised = PyNone
    /\ col_pc = "idle"

DecIdle ==
    /\ dec_years = {}
    /\ dec_min_year = 0
    /\ dec_max_year = 0
    /\ dec_current_decade_start = 0
    /\ dec_decade_options = << >>
    /\ dec_pc = "idle"

----------------------------------------------------------------------------
(* Characters and Python's str methods                                     *)

LowerCase == << "a","b","c","d","e","f","g","h","i","j","k","l","m",
                "n","o","p","q","r","s","t","u","v","w","x","y","z" >>

UpperCase == << "A","B","C","D","E","F","G","H","I","J","K","L","M",
                "N","O","P","Q","R","S","T","U","V","W","X","Y","Z" >>

\* What str.strip() with no argument removes.
Whitespace == {" ", "\t"}

IsLower(c) == \E i \in DOMAIN LowerCase : LowerCase[i] = c

IsUpper(c) == \E i \in DOMAIN UpperCase : UpperCase[i] = c

UpperChar(c) ==
    IF IsLower(c) THEN UpperCase[CHOOSE i \in DOMAIN LowerCase : LowerCase[i] = c]
    ELSE c

LowerChar(c) ==
    IF IsUpper(c) THEN LowerCase[CHOOSE i \in DOMAIN UpperCase : UpperCase[i] = c]
    ELSE c

\* str.upper()
Upper(s) == [i \in 1..Len(s) |-> UpperChar(s[i])]

\* str.lower()
Lower(s) == [i \in 1..Len(s) |-> LowerChar(s[i])]

\* str.lstrip(): drop leading whitespace, one character at a time.
RECURSIVE LStrip(_)
LStrip(s) ==
    IF s = << >> THEN s
    ELSE IF Head(s) \in Whitespace THEN LStrip(Tail(s))
    ELSE s

\* str.rstrip()
RECURSIVE RStrip(_)
RStrip(s) ==
    IF s = << >> THEN s
    ELSE IF s[Len(s)] \in Whitespace THEN RStrip(SubSeq(s, 1, Len(s) - 1))
    ELSE s

\* str.strip()
Strip(s) == RStrip(LStrip(s))

\* str.replace(" ", ""): every space removed.
RECURSIVE RemoveSpaces(_)
RemoveSpaces(s) ==
    IF s = << >> THEN s
    ELSE IF Head(s) = " " THEN RemoveSpaces(Tail(s))
    ELSE << Head(s) >> \o RemoveSpaces(Tail(s))

----------------------------------------------------------------------------
(* The two name tables                                                     *)

\* INDIA1.py: the substitution table, as (key, value) pairs in dict order.
\* A name is the sequence of its characters.
STATE_NAME_CORRECTIONS ==
    << << <<"O","r","i","s","s","a">>,
          <<"O","d","i","s","h","a">> >>,
       << <<"J","a","m","m","u"," ","&"," ","K","a","s","h","m","i","r">>,
          <<"J","a","m","m","u"," ","a","n","d"," ","K","a","s","h","m","i","r">> >>,
       << <<"C","h","h","a","t","t","i","s","g","a","r","h">>,
          <<"C","h","h","a","t","t","i","s","h","g","a","r","h">> >>,
       << <<"T","e","l","a","n","g","a","n","a">>,
          <<"T","e","l","e","n","g","a","n","a">> >>,
       << <<"T","a","m","i","l"," ","N","a","d","u">>,
          <<"T","a","m","i","l","n","a","d","u">> >>,
       << <<"K","e","r","e","l","a">>,
          <<"K","e","r","a","l","a">> >>,
       << <<"A","n","d","a","m","a","n"," ","&"," ","N","i","c","o","b","a","r"," ","I","s","l","a","n","d","s">>,
          <<"A","n","d","a","m","a","n"," ","&"," ","N","i","c","o","b","a","r">> >>,
       << <<"A","r","u","n","a","c","h","a","l"," ","P","r","a","d","e","s","h">>,
          <<"A","r","u","n","a","n","c","h","a","l"," ","P","r","a","d","e","s","h">> >>,
       << <<"D","a","d","r","a"," ","&"," ","N","a","g","a","r"," ","H","a","v","e","l","i">>,
          <<"D","a","d","a","r","a"," ","&"," ","N","a","g","a","r"," ","H","a","v","e","l","l","i">> >>,
       << <<"D","e","l","h","i">>,
          <<"N","C","T"," ","o","f"," ","D","e","l","h","i">> >>,
       << <<"P","u","d","u","c","h","e","r","r","y">>,
          <<"P","u","d","u","c","h","e","r","r","y">> >>,
       << <<"L","a","k","s","h","a","d","w","e","e","p">>,
          <<"L","a","k","s","h","a","d","w","e","e","p">> >>,
       << <<"C","h","a","n","d","i","g","a","r","h">>,
          <<"C","h","a","n","d","i","g","a","r","h">> >>,
       << <<"D","a","m","a","n"," ","&"," ","D","i","u">>,
          <<"D","a","m","a","n"," ","&"," ","D","i","u">> >>,
       << <<"L","a","d","a","k","h">>,
          <<"L","a","d","a","k","h">> >> >>

\* app1.py: the data-name -> GeoJSON-name table, in dict order.
STATE_NAME_MAPPING ==
    << << <<"A","n","d","a","m","a","n"," ","&"," ","N","i","c","o","b","a","r"," ","I","s","l","a","n","d","s">>,
          <<"A"," ","&"," ","N"," ","I","s","l","a","n","d","s">> >>,
       << <<"A","r","u","n","a","c","h","a","l"," ","P","r","a","d","e","s","h">>,
          <<"A","r","u","n","a","c","h","a","l"," ","P","r","a","d","e","s","h">> >>,
       << <<"A","n","d","h","r","a"," ","P","r","a","d","e","s","h">>,
          <<"A","n","d","h","r","a"," ","P","r","a","d","e","s","h">> >>,
       << <<"A","s","s","a","m">>,
          <<"A","s","s","a","m">> >>,
       << <<"B","i","h","a","r">>,
          <<"B","i","h","a","r">> >>,
       << <<"C","h","a","n","d","i","g","a","r","h">>,
          <<"C","h","a","n","d","i","g","a","r","h">> >>,
       << <<"C","h","h","a","t","t","i","s","g","a","r","h">>,
          <<"C","h","h","a","t","t","i","s","g","a","r","h">> >>,
       << <<"D","a","d","r","a"," ","&"," ","N","a","g","a","r"," ","H","a","v","e","l","i">>,
          <<"D","a","d","r","a"," ","&"," ","N","a","g","a","r"," ","H","a","v","e","l","i">> >>,
       << <<"D","a","m","a","n"," ","&"," ","D","i","u">>,
          <<"D","a","m","a","n"," ","&"," ","D","i","u">> >>,
       << <<"D","e","l","h","i">>,
          <<"N","C","T"," ","o","f"," ","D","e","l","h","i">> >>,
       << <<"G","o","a">>,
          <<"G","o","a">> >>,
       << <<"G","u","j","a","r","a","t">>,
          <<"G","u","j","a","r","a","t">> >>,
       << <<"H","a","r","y","a","n","a">>,
          <<"H","a","r","y","a","n","a">> >>,
       << <<"H","i","m","a","c","h","a","l"," ","P","r","a","d","e","s","h">>,
          <<"H","i","m","a","c","h","a","l"," ","P","r","a","d","e","s","h">> >>,
       << <<"J","a","m","m","u"," ","&"," ","K","a","s","h","m","i","r">>,
          <<"J","a","m","m","u"," ","&"," ","K","a","s","h","m","i","r">> >>,
       << <<"J","h","a","r","k","h","a","n","d">>,
          <<"J","h","a","r","k","h","a","n","d">> >>,
       << <<"K","a","r","n","a","t","a","k","a">>,
          <<"K","a","r","n","a","t","a","k","a">> >>,
       << <<"K","e","r","a","l","a">>,
          <<"K","e","r","a","l","a">> >>,
       << <<"M","a","d","h","y","a"," ","P","r","a","d","e","s","h">>,
          <<"M","a","d","h","y","a"," ","P","r","a","d","e","s","h">> >>,
       << <<"M","a","h","a","r","a","s","h","t","r","a">>,
          <<"M","a","h","a","r","a","s","h","t","r","a">> >>,
       << <<"M","a","n","i","p","u","r">>,
          <<"M","a","n","i","p","u","r">> >>,
       << <<"M","e","g","h","a","l","a","y","a">>,
          <<"M","e","g","h","a","l","a","y","a">> >>,
       << <<"M","i","z","o","r","a","m">>,
          <<"M","i","z","o","r","a","m">> >>,
       << <<"N","a","g","a","l","a","n","d">>,
          <<"N","a","g","a","l","a","n","d">> >>,
       << <<"O","d","i","s","h","a">>,
          <<"O","r","i","s","s","a">> >>,
       << <<"P","u","d","u","c","h","e","r","r","y">>,
          <<"P","u","d","u","c","h","e","r","r","y">> >>,
       << <<"P","u","n","j","a","b">>,
          <<"P","u","n","j","a","b">> >>,
       << <<"R","a","j","a","s","t","h","a","n">>,
          <<"R","a","j","a","s","t","h","a","n">> >>,
       << <<"S","i","k","k","i","m">>,
          <<"S","i","k","k","i","m">> >>,
       << <<"T","a","m","i","l"," ","N","a","d","u">>,
          <<"T","a","m","i","l"," ","N","a","d","u">> >>,
       << <<"T","e","l","a","n","g","a","n","a">>,
          <<"T","e","l","a","n","g","a","n","a">> >>,
       << <<"T","r","i","p","u","r","a">>,
          <<"T","r","i","p","u","r","a">> >>,
       << <<"U","t","t","a","r"," ","P","r","a","d","e","s","h">>,
          <<"U","t","t","a","r"," ","P","r","a","d","e","s","h">> >>,
       << <<"U","t","t","a","r","a","k","h","a","n","d">>,
          <<"U","t","t","a","r","a","k","h","a","n","d">> >>,
       << <<"W","e","s","t"," ","B","e","n","g","a","l">>,
          <<"W","e","s","t"," ","B","e","n","g","a","l">> >>,
       << <<"L","a","k","s","h","a","d","w","e","e","p">>,
          <<"L","a","k","s","h","a","d","w","e","e","p">> >> >>

\* REVERSE_STATE_NAME_MAPPING = {v: k for k, v in STATE_NAME_MAPPING.items()}
REVERSE_STATE_NAME_MAPPING ==
    [i \in DOMAIN STATE_NAME_MAPPING |->
        << STATE_NAME_MAPPING[i][2], STATE_NAME_MAPPING[i][1] >>]

Keys(table) == {table[i][1] : i \in DOMAIN table}

Values(table) == {table[i][2] : i \in DOMAIN table}

\* pandas Series.replace(dict) on one cell: the pairs are taken in order, each
\* compared with the cell's ORIGINAL value (the masks are computed before any
\* value is written), so a replaced value is not looked up again.
RECURSIVE ReplaceList(_, _, _, _)
ReplaceList(orig, cur, table, i) ==
    IF i > Len(table) THEN cur
    ELSE ReplaceList(orig,
                     IF orig = table[i][1] THEN table[i][2] ELSE cur,
                     table, i + 1)

Replace(cell, table) == ReplaceList(cell, cell, table, 1)

\* dict.get(name, name): a later pair with the same key overwrites an earlier one.
RECURSIVE DictGetFrom(_, _, _, _)
DictGetFrom(table, name, default, i) ==
    IF i = 0 THEN default
    ELSE IF table[i][1] = name THEN table[i][2]
    ELSE DictGetFrom(table, name, default, i - 1)

DictGet(table, name, default) == DictGetFrom(table, name, default, Len(table))

----------------------------------------------------------------------------
(* Name normalisation                                                      *)

\* The order of the three steps changed: upper-case first, then the lookup.
NormalizeUpperFirst(x) == Replace(Upper(Strip(x)), STATE_NAME_CORRECTIONS)

\* str.capitalize() in place of str.upper().
NormalizeCapitalize(x) ==
    LET r == Replace(Strip(x), STATE_NAME_CORRECTIONS)
    IN  [i \in 1..Len(r) |-> IF i = 1 THEN UpperChar(r[i]) ELSE LowerChar(r[i])]

\* INDIA1.py 95: gdf["State_Name"].str.strip().replace(...).str.upper()
NormalizeStateName(x) == Upper(Replace(Strip(x), STATE_NAME_CORRECTIONS))

\* INDIA1.py 107: gdf["ST_NM"].str.strip().replace(...).str.upper()
NormalizeDistrictStateName(x) == Upper(Replace(Strip(x), STATE_NAME_CORRECTIONS))

\* INDIA1.py 154: df_pulses_raw["State"].str.strip().replace(...).str.upper()
NormalizePulsesState(x) == Upper(Replace(Strip(x), STATE_NAME_CORRECTIONS))

\* app1.py 120: df['State'].replace(STATE_NAME_MAPPING)
MapState(x) == Replace(x, STATE_NAME_MAPPING)

\* The names that occur in either table.
TableNames ==
    Keys(STATE_NAME_CORRECTIONS) \cup Values(STATE_NAME_CORRECTIONS)
        \cup Keys(STATE_NAME_MAPPING) \cup Values(STATE_NAME_MAPPING)

\* The raw names tried: every table name as written, in upper case and in
\* lower case, with and without a leading and a trailing space.
Paddings == { << >>, << " " >> }

RawNames ==
    { lead \o cased \o trail :
        lead \in Paddings, trail \in Paddings,
        cased \in UNION { {n, Upper(n), Lower(n)} : n \in TableNames } }

InitNorm ==
    /\ raw_name \in RawNames
    /\ geo_State_Name = << >>
    /\ dist_ST_NM = << >>
    /\ pulses_State = << >>
    /\ app1_State = << >>
    /\ renormalized = << >>
    /\ norm_done = {}
    /\ FabIdle
    /\ AppIdle
    /\ YearIdle
    /\ LoadIdle
    /\ RngIdle
    /\ SessIdle
    /\ ColIdle
    /\ DecIdle

\* INDIA1.py 88-96: the states shapefile's State_Name column is normalised.
load_india_states_geojson ==
    /\ "states_shp" \notin norm_done
    /\ geo_State_Name' = NormalizeStateName(raw_name)
    /\ norm_done' = norm_done \cup {"states_shp"}
    /\ UNCHANGED << raw_name, dist_ST_NM, pulses_State, app1_State, renormalized >>
    /\ UNCHANGED notNormVars

\* INDIA1.py 99-108: the districts shapefile's ST_NM column is normalised.
load_india_districts_shapefile ==
    /\ "dist_shp" \notin norm_done
    /\ dist_ST_NM' = NormalizeDistrictStateName(raw_name)
    /\ norm_done' = norm_done \cup {"dist_shp"}
    /\ UNCHANGED << raw_name, geo_State_Name, pulses_State, app1_State, renormalized >>
    /\ UNCHANGED notNormVars

\* INDIA1.py 153-154: the data table's State column is normalised.
NormalizePulses ==
    /\ "pulses" \notin norm_done
    /\ pulses_State' = NormalizePulsesState(raw_name)
    /\ norm_done' = norm_done \cup {"pulses"}
    /\ UNCHANGED << raw_name, geo_State_Name, dist_ST_NM, app1_State, renormalized >>
    /\ UNCHANGED notNormVars

\* app1.py 119-120: the data table's State column is mapped.
load_data_MapState ==
    /\ "app1" \notin norm_done
    /\ app1_State' = MapState(raw_name)
    /\ norm_done' = norm_done \cup {"app1"}
    /\ UNCHANGED << raw_name, geo_State_Name, dist_ST_NM, pulses_State, renormalized >>
    /\ UNCHANGED notNormVars

\* The normalisation of INDIA1.py 154 applied to its own result.
NormalizeAgain ==
    /\ "pulses" \in norm_done
    /\ "again" \notin norm_done
    /\ renormalized' = NormalizePulsesState(pulses_State)
    /\ norm_done' = norm_done \cup {"again"}
    /\ UNCHANGED << raw_name, geo_State_Name, dist_ST_NM, pulses_State, app1_State >>
    /\ UNCHANGED notNormVars

NextNorm ==
    \/ load_india_states_geojson
    \/ load_india_districts_shapefile
    \/ NormalizePulses
    \/ load_data_MapState
    \/ NormalizeAgain

SpecNorm == InitNorm /\ [][NextNorm]_vars

----------------------------------------------------------------------------
(* Claims about the name normalisation                                     *)

\* The reference function upper(T(trim(x))), stated without recursion.
RefTrim(x) ==
    LET solid == {k \in DOMAIN x : x[k] \notin Whitespace}
    IN  IF solid = {} THEN << >>
        ELSE SubSeq(x, CHOOSE k \in solid : \A j \in solid : k <= j,
                       CHOOSE k \in solid : \A j \in solid : k >= j)

RefT(t) ==
    IF \E i \in DOMAIN STATE_NAME_CORRECTIONS : STATE_NAME_CORRECTIONS[i][1] = t
    THEN STATE_NAME_CORRECTIONS[
            CHOOSE i \in DOMAIN STATE_NAME_CORRECTIONS :
                STATE_NAME_CORRECTIONS[i][1] = t][2]
    ELSE t

RefNormalize(x) == Upper(RefT(RefTrim(x)))

\* C5: at each of the three places (states shapefile, districts shapefile, data
\* table) the normalised name is upper(T(trim(raw))): T looks the trimmed name up
\* exactly and case-sensitively, once, and passes an unknown name through.
C5_NormalizeIsUpperTableTrim ==
    /\ "states_shp" \in norm_done => geo_State_Name = RefNormalize(raw_name)
    /\ "dist_shp" \in norm_done => dist_ST_NM = RefNormalize(raw_name)
    /\ "pulses" \in norm_done => pulses_State = RefNormalize(raw_name)

\* C5 witness: a padded key with a non-identity entry has been normalised at all
\* three places, and so has a name that is a key only up to letter case.
C5_Witness ==
    /\ {"states_shp", "dist_shp", "pulses"} \subseteq norm_done
    /\ raw_name = << " " >> \o STATE_NAME_CORRECTIONS[1][1] \o << " " >>
    /\ pulses_State = Upper(STATE_NAME_CORRECTIONS[1][2])

SameLettersIgnoringCase(x, y) == Upper(x) = Upper(y)

\* C6: two raw names that differ only in letter case normalise to the same name,
\* and a normalised name holds no lower-case letter.
C6_CaseInsensitive ==
    "pulses" \in norm_done =>
        /\ \A i \in DOMAIN pulses_State : ~IsLower(pulses_State[i])
        /\ \A y \in RawNames :
              SameLettersIgnoringCase(y, raw_name) =>
                  NormalizePulsesState(y) = pulses_State

\* C7: normalising a normalised name changes nothing.
C7_Idempotent ==
    "again" \in norm_done => renormalized = pulses_State

\* C7 witness: the second normalisation has run on the result of a padded key
\* that the table rewrites.
C7_Witness ==
    /\ "again" \in norm_done
    /\ raw_name = << " " >> \o STATE_NAME_CORRECTIONS[1][1] \o << " " >>
    /\ pulses_State # Upper(Strip(raw_name))
    /\ renormalized = pulses_State

\* C8: a raw name that is a key of both tables gets the same canonical name from
\* INDIA1 and from app1, up to letter case.
C8_OneCanonicalName ==
    ( /\ {"pulses", "app1"} \subseteq norm_done
      /\ raw_name \in Keys(STATE_NAME_CORRECTIONS)
      /\ raw_name \in Keys(STATE_NAME_MAPPING) )
        => Upper(app1_State) = pulses_State

----------------------------------------------------------------------------
(* District fabrication: the state map and the full-India district map     *)

\* The most distinct districts a state has in the geometry tables tried.
MaxDistricts == 3

\* np.random.dirichlet returns proportions k/Resolution, k a natural number; a
\* Dummy_Value is held in units of 1/Resolution, so that it stays an integer.
Resolution == 2

\* A district row whose name is missing (None / NaN in the shapefile).
NullName == "<NA>"

DistrictNames == << "North", "South", "East", "West", "Central" >>

\* selected_state_map when no state is chosen.
NoneSelected == << "N", "o", "n", "e" >>

GOA == << "G", "O", "A" >>

\* "Tamil Nadu" in the data table is normalised to "TAMILNADU" ...
TAMILNADU == NormalizePulsesState(STATE_NAME_CORRECTIONS[5][1])

\* ... and a shapefile that writes "TAMIL NADU" keeps it.
TAMIL_NADU == NormalizeDistrictStateName(Upper(STATE_NAME_CORRECTIONS[5][1]))

DataStates == {GOA, TAMILNADU}

Years == {2000, 2001}

Totals == {0, 100}

DataLengths == {0, 1, 2}

\* df_pulses after INDIA1.py 140-188: Year an integer, the metric a number
\* (rows with a missing metric were dropped at 151), State normalised.
DataRows == [State : DataStates, Year : Years, Value : {Num(t) : t \in Totals}]

DataTables == UNION { [1..k -> DataRows] : k \in DataLengths }

GeoRows(state, names) == [i \in 1..Len(names) |-> [ST_NM |-> state, DISTRICT |-> names[i]]]

\* gdf_districts: GOA with n1 named districts, on request one of them on a
\* second geometry row and one row without a name; TAMIL NADU with n2.
GeoTable(n1, dup, nul, n2) ==
    GeoRows(GOA, SubSeq(DistrictNames, 1, n1))
        \o (IF dup /\ n1 >= 1 THEN GeoRows(GOA, << DistrictNames[1] >>) ELSE << >>)
        \o (IF nul THEN GeoRows(GOA, << NullName >>) ELSE << >>)
        \o GeoRows(TAMIL_NADU, SubSeq(DistrictNames, 1, n2))

GeoTables ==
    { GeoTable(n1, dup, nul, n2) :
        n1 \in 0..MaxDistricts, dup \in BOOLEAN, nul \in BOOLEAN,
        n2 \in {0, 2} }

\* The join keys of the state names that occur, computed once.
KeyOfStateName ==
    [name \in DataStates \cup {GOA, TAMIL_NADU, NoneSelected} |->
        RemoveSpaces(Upper(name))]

\* INDIA1.py 314, 316, 324, 578, 581: .upper().replace(" ", "")
MatchKey(name) ==
    IF name \in DOMAIN KeyOfStateName THEN KeyOfStateName[name]
    ELSE RemoveSpaces(Upper(name))

RECURSIVE SumSeq(_)
SumSeq(s) == IF Len(s) = 0 THEN 0 ELSE s[1] + SumSeq(Tail(s))

\* Series.unique(): the values in order of first appearance.
RECURSIVE UniqueFrom(_, _)
UniqueFrom(s, seen) ==
    IF s = << >> THEN << >>
    ELSE IF Head(s) \in seen THEN UniqueFrom(Tail(s), seen)
    ELSE << Head(s) >> \o UniqueFrom(Tail(s), seen \cup {Head(s)})

Unique(s) == UniqueFrom(s, {})

\* sorted(...) of a set of integers.
RECURSIVE Sorted(_)
Sorted(S) ==
    IF S = {} THEN << >>
    ELSE LET m == CHOOSE x \in S : \A y \in S : x <= y
         IN  << m >> \o Sorted(S \ {m})

\* pd.concat of a list of tables.
RECURSIVE Concat(_)
Concat(tables) ==
    IF tables = << >> THEN << >> ELSE Head(tables) \o Concat(Tail(tables))

YearsOf(table) == {table[i].Year : i \in DOMAIN table}

\* INDIA1.py 345, 583: table[district_col].dropna().unique().tolist()
DistrictsOf(table) ==
    LET named == SelectSeq(table, LAMBDA r : r.DISTRICT # NullName)
    IN  Unique([i \in 1..Len(named) |-> named[i].DISTRICT])

\* np.random.rand(n) in place of the Dirichlet draw: proportions that need not
\* sum to 1.
UniformDraws(n) == [1..n -> 0..Resolution]

\* INDIA1.py 350, 588: what np.random.dirichlet(np.ones(n)) may return: n
\* non-negative proportions that sum to 1 (an empty alpha gives an empty array).
Dirichlet(n) ==
    IF n = 0 THEN { << >> }
    ELSE { p \in [1..n -> 0..Resolution] : SumSeq(p) = Resolution }

\* INDIA1.py 351, 589: proportions * state_total_value (NaN times anything is NaN).
Scaled(p, total) ==
    [i \in 1..Len(p) |-> IF total.nan THEN NaN ELSE Num(p[i] * total.val)]

\* The guard of the draw without the test of n_districts.
DrawsWheneverTotal(n, total) == ~total.nan

\* INDIA1.py 348: if n_districts > 0
StateMapDraws(n, total) == n > 0

\* INDIA1.py 586: if n_districts > 0 and pd.notna(state_total_value)
FullMapDraws(n, total) == n > 0 /\ ~total.nan

\* INDIA1.py 291: ["None"] + sorted(available_states_for_dropdown)
StateOptions(table) == {NoneSelected} \cup {table[i].State : i \in DOMAIN table}

\* INDIA1.py 314
normalized_selected_state == MatchKey(selected_state_map)

\* INDIA1.py 315-317
state_gdf_filtered ==
    SelectSeq(gdf_districts, LAMBDA r : MatchKey(r.ST_NM) = normalized_selected_state)

\* INDIA1.py 323-325
state_historical_df ==
    SelectSeq(df_pulses, LAMBDA r : MatchKey(r.State) = normalized_selected_state)

\* INDIA1.py 338-342: the first row's metric, and 0 when there is no row.
StateTotalValue(year) ==
    LET current_year_state_data ==
            SelectSeq(state_historical_df, LAMBDA r : r.Year = year)
    IN  IF current_year_state_data # << >>
        THEN current_year_state_data[1].Value
        ELSE Num(0)

\* INDIA1.py 356-360: pd.DataFrame({district_col: ..., "Dummy_Value": ..., "Year": year})
TempDf(districts, values, year) ==
    [i \in 1..Len(districts) |->
        [DISTRICT |-> districts[i], Dummy_Value |-> values[i], Year |-> Num(year)]]

\* INDIA1.py 368-373: left.merge(right, on=district_col, how="left"): each left
\* row once per right row of the same district, or once with NaN columns.
RECURSIVE LeftMerge(_, _)
LeftMerge(left, right) ==
    IF left = << >> THEN << >>
    ELSE LET l == Head(left)
             hits == SelectSeq(right, LAMBDA r : r.DISTRICT = l.DISTRICT)
             joined ==
                 IF hits = << >>
                 THEN << [ST_NM |-> l.ST_NM, DISTRICT |-> l.DISTRICT,
                          Dummy_Value |-> NaN, Year |-> NaN] >>
                 ELSE [i \in 1..Len(hits) |->
                          [ST_NM |-> l.ST_NM, DISTRICT |-> l.DISTRICT,
                           Dummy_Value |-> hits[i].Dummy_Value, Year |-> hits[i].Year]]
         IN  joined \o LeftMerge(Tail(left), right)

\* The frame starts at 0 instead of NaN.
FrameOfZeros(year) ==
    [i \in 1..Len(gdf_districts) |->
        [ST_NM |-> gdf_districts[i].ST_NM, DISTRICT |-> gdf_districts[i].DISTRICT,
         Dummy_Value |-> Num(0), Year |-> Num(year)]]

\* INDIA1.py 568-570: the geometry table copied, Dummy_Value NaN, Year the year.
NewFrame(year) ==
    [i \in 1..Len(gdf_districts) |->
        [ST_NM |-> gdf_districts[i].ST_NM, DISTRICT |-> gdf_districts[i].DISTRICT,
         Dummy_Value |-> NaN, Year |-> Num(year)]]

\* The assignment without the state mask: every row with the district's name
\* gets the value, whichever state it lies in.
RECURSIVE AssignIgnoringState(_, _, _, _, _)
AssignIgnoringState(frame, key, districts, values, i) ==
    IF i > Len(districts) THEN frame
    ELSE AssignIgnoringState(
            [k \in 1..Len(frame) |->
                IF frame[k].DISTRICT = districts[i]
                THEN [frame[k] EXCEPT !.Dummy_Value = values[i]]
                ELSE frame[k]],
            key, districts, values, i + 1)

\* INDIA1.py 592-597: for each district in turn, every row of the state with
\* that district name gets that district's value.
RECURSIVE AssignFrom(_, _, _, _, _)
AssignFrom(frame, key, districts, values, i) ==
    IF i > Len(districts) THEN frame
    ELSE AssignFrom(
            [k \in 1..Len(frame) |->
                IF MatchKey(frame[k].ST_NM) = key /\ frame[k].DISTRICT = districts[i]
                THEN [frame[k] EXCEPT !.Dummy_Value = values[i]]
                ELSE frame[k]],
            key, districts, values, i + 1)

InitFab ==
    /\ df_pulses \in DataTables
    /\ gdf_districts \in GeoTables
    /\ selected_state_map \in StateOptions(df_pulses)
    /\ pc = "state_map"
    /\ years_left = << >>
    /\ rows_left = << >>
    /\ state_total_value = NaN
    /\ n_districts = 0
    /\ normalized_state = << >>
    /\ dummy_values = << >>
    /\ animated_state_district_data = << >>
    /\ merged_district_gdf = << >>
    /\ temp_gdf_districts_year = << >>
    /\ animated_full_india_district_data = << >>
    /\ animated_full_india_districts_gdf = << >>
    /\ draws = 0
    /\ run_error = FALSE
    /\ NormIdle
    /\ AppIdle
    /\ YearIdle
    /\ LoadIdle
    /\ RngIdle
    /\ SessIdle
    /\ ColIdle
    /\ DecIdle

\* INDIA1.py 307-334: the state map is entered when a state is selected, has
\* geometry rows and has data rows; otherwise a message is shown (or nothing)
\* and the run goes on to the full map.
StateMapSelect ==
    /\ pc = "state_map"
    /\ IF /\ selected_state_map # NoneSelected
          /\ state_gdf_filtered # << >>
          /\ state_historical_df # << >>
       THEN /\ years_left' = Sorted(YearsOf(state_historical_df))
            /\ pc' = "state_loop"
       ELSE /\ years_left' = << >>
            /\ pc' = "full_map"
    /\ animated_state_district_data' = << >>
    /\ UNCHANGED << df_pulses, gdf_districts, selected_state_map, rows_left,
                    state_total_value, n_districts, normalized_state, dummy_values,
                    merged_district_gdf, temp_gdf_districts_year,
                    animated_full_india_district_data,
                    animated_full_india_districts_gdf, draws, run_error >>
    /\ UNCHANGED notFabVars

\* INDIA1.py 336-361: one pass of the state map's year loop.  The DataFrame
\* constructor raises when its columns differ in length.
StateMapYear ==
    /\ pc = "state_loop"
    /\ years_left # << >>
    /\ LET year == Head(years_left)
           total == StateTotalValue(year)
           districts_in_state == DistrictsOf(state_gdf_filtered)
           n == Len(districts_in_state)
       IN  /\ state_total_value' = total
           /\ n_districts' = n
           /\ normalized_state' = normalized_selected_state
           /\ \E values \in IF StateMapDraws(n, total)
                            THEN {Scaled(p, total) : p \in Dirichlet(n)}
                            ELSE { << >> } :
                /\ dummy_values' = values
                /\ IF Len(values) = n
                   THEN /\ animated_state_district_data' =
                              Append(animated_state_district_data,
                                     TempDf(districts_in_state, values, year))
                        /\ years_left' = Tail(years_left)
                        /\ pc' = "state_loop"
                        /\ run_error' = FALSE
                   ELSE /\ animated_state_district_data' = animated_state_district_data
                        /\ years_left' = years_left
                        /\ pc' = "done"
                        /\ run_error' = TRUE
           /\ draws' = draws + (IF StateMapDraws(n, total) THEN 1 ELSE 0)
    /\ UNCHANGED << df_pulses, gdf_districts, selected_state_map, rows_left,
                    merged_district_gdf, temp_gdf_districts_year,
                    animated_full_india_district_data,
                    animated_full_india_districts_gdf >>
    /\ UNCHANGED notFabVars

\* INDIA1.py 363-450: the per-year tables are concatenated and merged onto the
\* state's geometry rows, and the state map is drawn from the result.
StateMapMerge ==
    /\ pc = "state_loop"
    /\ years_left = << >>
    /\ merged_district_gdf' =
          IF animated_state_district_data # << >>
          THEN LeftMerge(state_gdf_filtered, Concat(animated_state_district_data))
          ELSE << >>
    /\ pc' = "full_map"
    /\ UNCHANGED << df_pulses, gdf_districts, selected_state_map, years_left,
                    rows_left, state_total_value, n_districts, normalized_state, dummy_values,
                    animated_state_district_data, temp_gdf_districts_year,
                    animated_full_india_district_data,
                    animated_full_india_districts_gdf, draws, run_error >>
    /\ UNCHANGED notFabVars

\* INDIA1.py 554-561: the full map's year list.  The state map's tables are
\* not read again once it is drawn: they are dropped here.
FullMapStart ==
    /\ pc = "full_map"
    /\ years_left' = IF df_pulses # << >> THEN Sorted(YearsOf(df_pulses)) ELSE << >>
    /\ animated_full_india_district_data' = << >>
    /\ animated_state_district_data' = << >>
    /\ merged_district_gdf' = << >>
    /\ pc' = "full_year"
    /\ UNCHANGED << df_pulses, gdf_districts, selected_state_map, rows_left,
                    state_total_value, n_districts, normalized_state, dummy_values,
                    temp_gdf_districts_year, animated_full_india_districts_gdf,
                    draws, run_error >>
    /\ UNCHANGED notFabVars

\* INDIA1.py 563-570: a year's frame is started and its data rows selected.
FullMapYear ==
    /\ pc = "full_year"
    /\ years_left # << >>
    /\ temp_gdf_districts_year' = NewFrame(Head(years_left))
    /\ rows_left' = SelectSeq(df_pulses, LAMBDA r : r.Year = Head(years_left))
    /\ pc' = "full_rows"
    /\ UNCHANGED << df_pulses, gdf_districts, selected_state_map, years_left,
                    state_total_value, n_districts, normalized_state, dummy_values,
                    animated_state_district_data, merged_district_gdf,
                    animated_full_india_district_data,
                    animated_full_india_districts_gdf, draws, run_error >>
    /\ UNCHANGED notFabVars

\* INDIA1.py 573-597: one data row of the year: the districts of its state get
\* a share of its metric value each.
FullMapRow ==
    /\ pc = "full_rows"
    /\ rows_left # << >>
    /\ LET row == Head(rows_left)
           total == row.Value
           normalized_state_name_data == MatchKey(row.State)
           in_state == SelectSeq(temp_gdf_districts_year,
                          LAMBDA r : MatchKey(r.ST_NM) = normalized_state_name_data)
           districts_in_state == DistrictsOf(in_state)
           n == Len(districts_in_state)
       IN  /\ state_total_value' = total
           /\ n_districts' = n
           /\ normalized_state' = normalized_state_name_data
           /\ IF FullMapDraws(n, total)
              THEN \E p \in Dirichlet(n) :
                      /\ dummy_values' = Scaled(p, total)
                      /\ temp_gdf_districts_year' =
                            AssignFrom(temp_gdf_districts_year,
                                       normalized_state_name_data,
                                       districts_in_state, Scaled(p, total), 1)
                      /\ draws' = draws + 1
              ELSE UNCHANGED << dummy_values, temp_gdf_districts_year, draws >>
    /\ rows_left' = Tail(rows_left)
    /\ UNCHANGED << df_pulses, gdf_districts, selected_state_map, years_left, pc,
                    animated_state_district_data, merged_district_gdf,
                    animated_full_india_district_data,
                    animated_full_india_districts_gdf, run_error >>
    /\ UNCHANGED notFabVars

\* INDIA1.py 598: the year's frame is appended and the loop takes the next year.
FullMapAppend ==
    /\ pc = "full_rows"
    /\ rows_left = << >>
    /\ animated_full_india_district_data' =
          Append(animated_full_india_district_data, temp_gdf_districts_year)
    /\ years_left' = Tail(years_left)
    /\ pc' = "full_year"
    /\ UNCHANGED << df_pulses, gdf_districts, selected_state_map, rows_left,
                    state_total_value, n_districts, normalized_state, dummy_values,
                    animated_state_district_data, merged_district_gdf,
                    temp_gdf_districts_year, animated_full_india_districts_gdf,
                    draws, run_error >>
    /\ UNCHANGED notFabVars

\* INDIA1.py 600-676: the frames are concatenated and the full map is drawn
\* (or, with no frame, a warning is shown).
FullMapConcat ==
    /\ pc = "full_year"
    /\ years_left = << >>
    /\ animated_full_india_districts_gdf' = Concat(animated_full_india_district_data)
    /\ pc' = "done"
    /\ UNCHANGED << df_pulses, gdf_districts, selected_state_map, years_left,
                    rows_left, state_total_value, n_districts, normalized_state, dummy_values,
                    animated_state_district_data, merged_district_gdf,
                    temp_gdf_districts_year, animated_full_india_district_data,
                    draws, run_error >>
    /\ UNCHANGED notFabVars

NextFab ==
    \/ StateMapSelect
    \/ StateMapYear
    \/ StateMapMerge
    \/ FullMapStart
    \/ FullMapYear
    \/ FullMapRow
    \/ FullMapAppend
    \/ FullMapConcat

SpecFab == InitFab /\ [][NextFab]_vars

----------------------------------------------------------------------------
(* Claims about the district fabrication                                   *)

\* The rows of a district table that belong to the state with join key `key`.
RowsOfState(table, key) == SelectSeq(table, LAMBDA r : MatchKey(r.ST_NM) = key)

\* The distinct district names the geometry table gives the state.
NamedDistricts(key) ==
    {gdf_districts[i].DISTRICT : i \in
        {j \in DOMAIN gdf_districts :
            /\ MatchKey(gdf_districts[j].ST_NM) = key
            /\ gdf_districts[j].DISTRICT # NullName}}

\* Series.sum(): NaN cells are skipped.
SumSkipNaN(table) ==
    SumSeq([i \in 1..Len(table) |->
               IF table[i].Dummy_Value.nan THEN 0 ELSE table[i].Dummy_Value.val])

\* The data rows of a state (by join key) in a year, in table order.
DataOf(key, year) ==
    SelectSeq(df_pulses, LAMBDA r : MatchKey(r.State) = key /\ r.Year = year)

\* C1: whenever a state with n >= 1 distinct district names and a total T >= 0
\* has been disaggregated (state map or full map), there are exactly n values,
\* none negative, and they sum to T, whatever was drawn.  (Values are in units
\* of 1/Resolution.)
C1_SharesSumToTotal ==
    (n_districts >= 1 /\ ~state_total_value.nan /\ state_total_value.val >= 0) =>
        /\ n_districts = Cardinality(NamedDistricts(normalized_state))
        /\ Len(dummy_values) = n_districts
        /\ \A i \in DOMAIN dummy_values :
              ~dummy_values[i].nan /\ dummy_values[i].val >= 0
        /\ SumSeq([i \in DOMAIN dummy_values |-> dummy_values[i].val])
              = Resolution * state_total_value.val
        /\ (pc = "state_loop" /\ animated_state_district_data # << >>) =>
              LET temp_df == animated_state_district_data[Len(animated_state_district_data)]
              IN  /\ Len(temp_df) = n_districts
                  /\ SumSkipNaN(temp_df) = Resolution * state_total_value.val

\* C1 witness: after a state-map draw, the full map has split a total of 100
\* over two or more districts, two of which got a positive share.
C1_Witness ==
    /\ pc = "full_rows"
    /\ selected_state_map # NoneSelected
    /\ draws >= 2
    /\ n_districts >= 2
    /\ state_total_value = Num(100)
    /\ dummy_values[1].val > 0
    /\ dummy_values[2].val > 0

\* C2, for the states that have a named district: in the table the full map
\* draws, the Dummy_Values of all rows of a state in a year sum to a metric
\* value the state has in that year.
C2_RowsSumToStateValue ==
    pc = "done" =>
        \A i \in DOMAIN df_pulses :
            LET key == MatchKey(df_pulses[i].State)
                year == df_pulses[i].Year
                rows == SelectSeq(RowsOfState(animated_full_india_districts_gdf, key),
                                  LAMBDA r : r.Year = Num(year))
            IN  NamedDistricts(key) # {} =>
                    \E j \in DOMAIN df_pulses :
                        /\ MatchKey(df_pulses[j].State) = key
                        /\ df_pulses[j].Year = year
                        /\ SumSkipNaN(rows) = Resolution * df_pulses[j].Value.val

\* What the full map does keep: for a state with a named district, all rows
\* of one district in one year carry one value, and these values, one per
\* distinct district name, sum to the metric value of the state's last data
\* row of that year.
C2_DistrictsSumToLastRowValue ==
    pc = "done" =>
        \A i \in DOMAIN df_pulses :
            LET key == MatchKey(df_pulses[i].State)
                year == df_pulses[i].Year
                rows == SelectSeq(RowsOfState(animated_full_india_districts_gdf, key),
                                  LAMBDA r : r.Year = Num(year))
                data == DataOf(key, year)
                ValueOf(d) ==
                    (CHOOSE r \in {rows[k] : k \in DOMAIN rows} : r.DISTRICT = d).Dummy_Value
                names == Sorted({k \in DOMAIN DistrictNames :
                                    DistrictNames[k] \in NamedDistricts(key)})
            IN  NamedDistricts(key) # {} =>
                    /\ \A k \in DOMAIN rows :
                          rows[k].DISTRICT # NullName =>
                              /\ ~rows[k].Dummy_Value.nan
                              /\ rows[k].Dummy_Value = ValueOf(rows[k].DISTRICT)
                    /\ SumSeq([k \in DOMAIN names |-> ValueOf(DistrictNames[names[k]]).val])
                          = Resolution * data[Len(data)].Value.val

\* The case of C2: the full map is drawn for a state with two data rows of
\* different value in one year, a second district, and a district on two
\* geometry rows that both carry a positive value.
C2_Witness ==
    /\ pc = "done"
    /\ \E i, j \in DOMAIN df_pulses :
          /\ i < j
          /\ df_pulses[i].State = df_pulses[j].State
          /\ df_pulses[i].Year = df_pulses[j].Year
          /\ df_pulses[i].Value # df_pulses[j].Value
          /\ Cardinality(NamedDistricts(MatchKey(df_pulses[i].State))) >= 2
    /\ \E a, b \in DOMAIN animated_full_india_districts_gdf :
          LET t == animated_full_india_districts_gdf
          IN  /\ a < b
              /\ t[a].ST_NM = t[b].ST_NM
              /\ t[a].DISTRICT = t[b].DISTRICT
              /\ t[a].Year = t[b].Year
              /\ ~t[a].Dummy_Value.nan
              /\ t[a].Dummy_Value.val > 0

\* A state (by join key) has a metric value in a year.
HasValue(key, year) == DataOf(key, year) # << >>

C4_NoDistrictsNoDraw ==
    [][ /\ ( /\ pc = "state_loop"
             /\ years_left # << >>
             /\ NamedDistricts(normalized_selected_state) = {} )
            => /\ draws' = draws
               /\ ~run_error'
               /\ animated_state_district_data' =
                     Append(animated_state_district_data, << >>)
        /\ ( /\ pc = "full_rows"
             /\ rows_left # << >>
             /\ NamedDistricts(MatchKey(Head(rows_left).State)) = {} )
            => /\ draws' = draws
               /\ ~run_error'
               /\ temp_gdf_districts_year' = temp_gdf_districts_year
      ]_vars

\* C4 witness: the state map and then the full map have handled a value of 100
\* of a state whose only geometry row has no district name; nothing was drawn.
C4_Witness ==
    /\ pc = "full_rows"
    /\ selected_state_map = GOA
    /\ state_gdf_filtered # << >>
    /\ NamedDistricts(MatchKey(GOA)) = {}
    /\ normalized_state = MatchKey(GOA)
    /\ n_districts = 0
    /\ state_total_value = Num(100)
    /\ draws = 0
    /\ ~run_error

----------------------------------------------------------------------------
(* app1.py: loading the data table and the GeoJSON state filter            *)

\* The most rows the CSV files hold in the tables tried.
MaxCsvRows == 2

\* The names tried in the CSV State column: keys of STATE_NAME_MAPPING that
\* the mapping renames (Delhi, Odisha), the names it gives them, a key it
\* keeps (Goa) and a name it does not know (Ladakh).
CsvNames ==
    { STATE_NAME_MAPPING[10][1], STATE_NAME_MAPPING[10][2],
      STATE_NAME_MAPPING[25][1], STATE_NAME_MAPPING[25][2],
      STATE_NAME_MAPPING[11][1], STATE_NAME_CORRECTIONS[15][1] }

\* The ST_NM values tried for the GeoJSON's features.
GeoJsonNames ==
    { STATE_NAME_MAPPING[10][2], STATE_NAME_MAPPING[25][2],
      STATE_NAME_MAPPING[11][1], STATE_NAME_MAPPING[10][1],
      STATE_NAME_CORRECTIONS[15][1] }

CsvTables == UNION { [1..k -> CsvNames] : k \in 0..MaxCsvRows }

InitApp ==
    /\ csv_State \in CsvTables
    /\ geojson_loaded \in BOOLEAN
    /\ geojson_state_names \in SUBSET GeoJsonNames
    /\ geojson_loaded = FALSE => geojson_state_names = {}
    /\ df_combined = << >>
    /\ standardized_geojson_names = {}
    /\ app_pc = "start"
    /\ NormIdle
    /\ FabIdle
    /\ YearIdle
    /\ LoadIdle
    /\ RngIdle
    /\ SessIdle
    /\ ColIdle
    /\ DecIdle

\* app1.py 160: the GeoJSON names mapped back through the reverse table.
StandardizedNames(names) ==
    { DictGet(REVERSE_STATE_NAME_MAPPING, name, name) : name \in names }

\* app1.py 163: df_combined[df_combined['State'].isin(standardized_geojson_names)]
FilterByStandardizedNames(table, names) ==
    SelectSeq(table, LAMBDA r : r.State \in StandardizedNames(names))

\* app1.py 78-131, 147-148: every row's State goes through the mapping.
load_data ==
    /\ app_pc = "start"
    /\ df_combined' = [i \in 1..Len(csv_State) |-> [State |-> MapState(csv_State[i])]]
    /\ app_pc' = "loaded"
    /\ UNCHANGED << csv_State, geojson_loaded, geojson_state_names,
                    standardized_geojson_names >>
    /\ UNCHANGED notAppVars

\* app1.py 150-151: st.stop() when the table is empty or the GeoJSON is None.
StopWithoutData ==
    /\ app_pc = "loaded"
    /\ df_combined = << >> \/ ~geojson_loaded
    /\ app_pc' = "stopped"
    /\ UNCHANGED << csv_State, geojson_loaded, geojson_state_names, df_combined,
                    standardized_geojson_names >>
    /\ UNCHANGED notAppVars

\* app1.py 153-163: the rows whose State is not among the GeoJSON's names,
\* mapped back through the reverse table, are filtered out.
GeoJsonFilter ==
    /\ app_pc = "loaded"
    /\ ~(df_combined = << >> \/ ~geojson_loaded)
    /\ standardized_geojson_names' = StandardizedNames(geojson_state_names)
    /\ df_combined' = FilterByStandardizedNames(df_combined, geojson_state_names)
    /\ app_pc' = "filtered"
    /\ UNCHANGED << csv_State, geojson_loaded, geojson_state_names >>
    /\ UNCHANGED notAppVars

NextApp ==
    \/ load_data
    \/ StopWithoutData
    \/ GeoJsonFilter

SpecApp == InitApp /\ [][NextApp]_vars

\* How many rows of a table hold the State `name`.
RowsNamed(table, name) == Cardinality({i \in DOMAIN table : table[i].State = name})

\* C9: after the filter the table holds every loaded row whose mapped State is
\* the ST_NM of a feature of the GeoJSON, and no row whose State is no feature's.
C9_FilterKeepsStatesOfGeoJson ==
    app_pc = "filtered" =>
        /\ \A name \in geojson_state_names :
              RowsNamed(df_combined, name) =
                  Cardinality({i \in DOMAIN csv_State : MapState(csv_State[i]) = name})
        /\ \A i \in DOMAIN df_combined : df_combined[i].State \in geojson_state_names

----------------------------------------------------------------------------
(* The year extraction of the two data loaders                             *)

DigitChars == << "0","1","2","3","4","5","6","7","8","9" >>

IsDigit(c) == \E i \in DOMAIN DigitChars : DigitChars[i] = c

DigitVal(c) == (CHOOSE i \in DOMAIN DigitChars : DigitChars[i] = c) - 1

AllDigits(s) == s # << >> /\ \A i \in DOMAIN s : IsDigit(s[i])

\* The number a string of digits writes in base ten.
RECURSIVE IntVal(_)
IntVal(s) ==
    IF s = << >> THEN 0
    ELSE 10 * IntVal(SubSeq(s, 1, Len(s) - 1)) + DigitVal(s[Len(s)])

Kept(v) == [outcome |-> "kept", val |-> v]

Dropped == [outcome |-> "dropped", val |-> 0]

Raised == [outcome |-> "raised", val |-> 0]

\* A cell pandas read as missing (NaN).
MissingCell == << NullName >>

\* str.split(sep)[0]: what stands before the first separator, the whole
\* string when there is none.
RECURSIVE SplitFirst(_, _)
SplitFirst(s, sep) ==
    IF s = << >> THEN s
    ELSE IF Head(s) = sep THEN << >>
    ELSE << Head(s) >> \o SplitFirst(Tail(s), sep)

\* int(str): surrounding whitespace is allowed, then digits only; anything
\* else is a ValueError.
IntOfStr(s) ==
    IF AllDigits(Strip(s)) THEN Kept(IntVal(Strip(s))) ELSE Raised

\* INDIA1.py 145-149: a missing cell's row is dropped; any other cell is
\* written as a string, cut at the first '-' and converted by int, whose
\* ValueError ends the load (the except of line 272).
ParseYear(cell) ==
    IF cell = MissingCell THEN Dropped
    ELSE IntOfStr(SplitFirst(cell, "-"))

\* The position of the decimal point of a string, 0 when it has none.
PointAt(s) ==
    IF \E i \in DOMAIN s : s[i] = "." THEN CHOOSE i \in DOMAIN s : s[i] = "."
    ELSE 0

\* pd.to_numeric(errors='coerce') on one cell: a string of digits is its
\* number, digits with a fraction of zeros the same number as a float, a
\* missing cell and every other string tried (a range, a word) NaN.
ToNumeric(cell) ==
    IF cell = MissingCell THEN NaN
    ELSE IF AllDigits(cell) THEN Num(IntVal(cell))
    ELSE IF /\ PointAt(cell) > 1
            /\ AllDigits(SubSeq(cell, 1, PointAt(cell) - 1))
            /\ AllDigits(SubSeq(cell, PointAt(cell) + 1, Len(cell)))
            /\ IntVal(SubSeq(cell, PointAt(cell) + 1, Len(cell))) = 0
         THEN Num(IntVal(SubSeq(cell, 1, PointAt(cell) - 1)))
    ELSE NaN

\* app1.py 111-117: the cell is coerced to a number and the rows whose Year
\* is NaN are dropped.
CoerceYear(cell) ==
    IF ToNumeric(cell).nan THEN Dropped ELSE Kept(ToNumeric(cell).val)

\* The year cells tried: years of four digits, alone, as the range
\* "YYYY-YY" that starts with them, and as the float pandas writes; a word;
\* a missing cell.
YearDigits ==
    { << a, b, c, d >> : a \in {"1", "2"}, b \in {"0", "9"},
                         c \in {"0", "1", "9"}, d \in {"0", "1", "5", "9"} }

RangeSuffixes == { << "-", "0", "1" >>, << "-", "0", "2" >>, << "-", "0", "0" >> }

YearCells ==
    YearDigits
    \cup { y \o suffix : y \in YearDigits, suffix \in RangeSuffixes }
    \cup { y \o << ".", "0" >> : y \in YearDigits }
    \cup { << "T", "o", "t", "a", "l" >>, MissingCell }

InitYear ==
    /\ year_cell \in YearCells
    /\ india1_Year = Unset
    /\ app1_Year = Unset
    /\ year_done = {}
    /\ NormIdle
    /\ FabIdle
    /\ AppIdle
    /\ LoadIdle
    /\ RngIdle
    /\ SessIdle
    /\ ColIdle
    /\ DecIdle

\* INDIA1.py 145-149 on the cell.
PulsesYear ==
    /\ "INDIA1" \notin year_done
    /\ india1_Year' = ParseYear(year_cell)
    /\ year_done' = year_done \cup {"INDIA1"}
    /\ UNCHANGED << year_cell, app1_Year >>
    /\ UNCHANGED notYearVars

\* app1.py 111-117 on the cell.
load_data_Year ==
    /\ "app1" \notin year_done
    /\ app1_Year' = CoerceYear(year_cell)
    /\ year_done' = year_done \cup {"app1"}
    /\ UNCHANGED << year_cell, india1_Year >>
    /\ UNCHANGED notYearVars

NextYear ==
    \/ PulsesYear
    \/ load_data_Year

SpecYear == InitYear /\ [][NextYear]_vars

\* A cell of the form "YYYY-YY".
IsYearRange(cell) ==
    /\ Len(cell) = 7
    /\ cell[5] = "-"
    /\ \A i \in {1, 2, 3, 4, 6, 7} : IsDigit(cell[i])

\* The integer YYYY of a cell "YYYY-YY".
LeadingYear(cell) ==
    1000 * DigitVal(cell[1]) + 100 * DigitVal(cell[2])
        + 10 * DigitVal(cell[3]) + DigitVal(cell[4])

\* C10: each loader, once it has run on a cell "YYYY-YY", has kept the row
\* with the integer YYYY as its year.
C10_RangeYieldsLeadingYear ==
    IsYearRange(year_cell) =>
        /\ "INDIA1" \in year_done => india1_Year = Kept(LeadingYear(year_cell))
        /\ "app1" \in year_done => app1_Year = Kept(LeadingYear(year_cell))

----------------------------------------------------------------------------
(* One run of INDIA1.py: the sheet is cleaned, a decade is chosen, the     *)
(* sections are rendered                                                  *)

Kharif == << "K", "h", "a", "r", "i", "f" >>

Rabi == << "R", "a", "b", "i" >>

\* INDIA1.py 125: the seasons tried in the sidebar.
SeasonOptions == {Kharif, Rabi}

\* The cells tried in the sheet: Season as the sheet spells it, State in two
\* spellings of one state and a second state, Year as a range, a number, a
\* word and a missing cell, the metric as numbers and a word.
XlSeasons == { Lower(Kharif), Rabi }

XlStates == { STATE_NAME_CORRECTIONS[1][1], STATE_NAME_CORRECTIONS[1][2], << "G", "o", "a" >> }

XlYears == { << "1", "9", "9", "9", "-", "0", "0" >>, << "2", "0", "0", "0", "-", "0", "1" >>, << "2", "0", "1", "0" >>, << "T", "o", "t", "a", "l" >>, MissingCell }

XlMetrics == { << "5" >>, << "7" >>, << "n", ".", "a", "." >> }

XlLengths == {0, 1, 2}

XlRows == [Season : XlSeasons, State : XlStates, Year : XlYears, Metric : XlMetrics]

XlTables == UNION { [1..k -> XlRows] : k \in XlLengths }

\* INDIA1.py 143: the rows of the selected season, compared in lower case.
SeasonFilter(rows, s) == SelectSeq(rows, LAMBDA r : Lower(r.Season) = Lower(s))

\* INDIA1.py 146: dropna(subset=["Year"])
DropNaYear(rows) == SelectSeq(rows, LAMBDA r : r.Year # MissingCell)

\* INDIA1.py 149: astype(int) raises ValueError when any cell of the column
\* is no integer literal.
YearRaises(rows) ==
    \E i \in DOMAIN rows : ParseYear(rows[i].Year) = Raised

\* INDIA1.py 149-154: Year parsed, the metric coerced, the rows without a
\* number dropped, State normalised.
CleanRows(rows) ==
    LET numeric == SelectSeq(rows, LAMBDA r : ~ToNumeric(r.Metric).nan)
    IN  [i \in 1..Len(numeric) |->
            [State |-> NormalizePulsesState(numeric[i].State),
             Year  |-> ParseYear(numeric[i].Year).val,
             Value |-> ToNumeric(numeric[i].Metric)]]

MinOf(S) == CHOOSE x \in S : \A y \in S : x <= y

MaxOf(S) == CHOOSE x \in S : \A y \in S : x >= y

\* INDIA1.py 157-162
min_year(table) == IF table # << >> THEN MinOf(YearsOf(table)) ELSE 0

max_year(table) == IF table # << >> THEN MaxOf(YearsOf(table)) ELSE 0

\* str(n) of a non-negative integer, as an f-string writes it.
RECURSIVE StrOfNat(_)
StrOfNat(n) ==
    IF n < 10 THEN << DigitChars[n + 1] >>
    ELSE StrOfNat(n \div 10) \o << DigitChars[(n % 10) + 1] >>

\* INDIA1.py 168-174: the while loop from dec_current_decade_start on.
RECURSIVE DecadesFrom(_, _)
DecadesFrom(current_decade_start, last) ==
    IF current_decade_start <= last
    THEN LET decade_end == IF current_decade_start + 9 > last THEN last
                           ELSE current_decade_start + 9
         IN  << StrOfNat(current_decade_start) \o << "-" >> \o StrOfNat(decade_end) >>
                 \o DecadesFrom(current_decade_start + 10, last)
    ELSE << >>

\* INDIA1.py 165-174
DecadeOptions(table) ==
    IF min_year(table) # 0 \/ max_year(table) # 0
    THEN DecadesFrom((min_year(table) \div 10) * 10, max_year(table))
    ELSE << >>

\* str.split(sep): the parts between the separators.
RECURSIVE SplitAll(_, _)
SplitAll(s, sep) ==
    IF \E i \in DOMAIN s : s[i] = sep
    THEN LET first == SplitFirst(s, sep)
         IN  << first >> \o SplitAll(SubSeq(s, Len(first) + 2, Len(s)), sep)
    ELSE << s >>

\* INDIA1.py 181: start_year_decade, end_year_decade = map(int, ....split('-'))
\* raises ValueError unless there are two parts, each an integer literal.
DecadeRaises(range) ==
    LET parts == SplitAll(range, "-")
    IN  \/ Len(parts) # 2
        \/ \E i \in DOMAIN parts : IntOfStr(parts[i]) = Raised

start_year_decade(range) == IntOfStr(SplitAll(range, "-")[1]).val

end_year_decade(range) == IntOfStr(SplitAll(range, "-")[2]).val

\* The decade filter with the end year left out of the range.
DecadeFilterExclusive(table, range) ==
    SelectSeq(table, LAMBDA r : /\ r.Year >= start_year_decade(range)
                                /\ r.Year < end_year_decade(range))

\* INDIA1.py 182-185
DecadeFilter(table, range) ==
    SelectSeq(table, LAMBDA r : /\ r.Year >= start_year_decade(range)
                                /\ r.Year <= end_year_decade(range))

InitLoad ==
    /\ xl_rows \in XlTables
    /\ season \in SeasonOptions
    /\ df_pulses_raw = << >>
    /\ decade_options = << >>
    /\ selected_decade_range = << >>
    /\ india1_df_pulses = << >>
    /\ india1_selected_state = << >>
    /\ messages = {}
    /\ maps = {}
    /\ state_geometry = "unread"
    /\ load_pc = "try"
    /\ NormIdle
    /\ FabIdle
    /\ AppIdle
    /\ YearIdle
    /\ RngIdle
    /\ SessIdle
    /\ ColIdle
    /\ DecIdle

\* INDIA1.py 272-274: st.error, df_pulses emptied, the run goes on after the try.
ExceptHandler ==
    /\ messages' = messages \cup {"error_273"}
    /\ india1_df_pulses' = << >>
    /\ load_pc' = "state_select"

\* INDIA1.py 132-174: the sheet is read and cleaned and the decades are listed;
\* a ValueError of the year conversion is caught at 272.
Preprocess ==
    /\ load_pc = "try"
    /\ LET rows == DropNaYear(SeasonFilter(xl_rows, season))
       IN  IF YearRaises(rows)
           THEN /\ ExceptHandler
                /\ UNCHANGED << df_pulses_raw, decade_options >>
           ELSE /\ df_pulses_raw' = CleanRows(rows)
                /\ decade_options' = DecadeOptions(CleanRows(rows))
                /\ load_pc' = "decade"
                /\ UNCHANGED << messages, india1_df_pulses >>
    /\ UNCHANGED << xl_rows, season, selected_decade_range, india1_selected_state,
                    maps, state_geometry >>
    /\ UNCHANGED notLoadVars

\* INDIA1.py 176-188: a decade is chosen and the table filtered by it, or
\* the warning of 187 when no decade is offered.
SelectDecade ==
    /\ load_pc = "decade"
    /\ IF decade_options # << >>
       THEN \E i \in DOMAIN decade_options :
               /\ selected_decade_range' = decade_options[i]
               /\ IF DecadeRaises(decade_options[i])
                  THEN ExceptHandler
                  ELSE /\ india1_df_pulses' = DecadeFilter(df_pulses_raw, decade_options[i])
                       /\ load_pc' = "india_map"
                       /\ UNCHANGED messages
       ELSE /\ messages' = messages \cup {"warning_187"}
            /\ india1_df_pulses' = << >>
            /\ load_pc' = "india_map"
            /\ UNCHANGED selected_decade_range
    /\ UNCHANGED << xl_rows, season, df_pulses_raw, decade_options,
                    india1_selected_state, maps, state_geometry >>
    /\ UNCHANGED notLoadVars

\* The choropleth built without the check for an empty table.
IndiaMapUnguarded ==
    /\ load_pc = "india_map"
    /\ maps' = maps \cup {"fig_india_pulses"}
    /\ load_pc' = "state_select"
    /\ UNCHANGED << xl_rows, season, df_pulses_raw, decade_options,
                    selected_decade_range, india1_df_pulses, india1_selected_state,
                    messages, state_geometry >>
    /\ UNCHANGED notLoadVars

\* INDIA1.py 190-270: the warning of 201 for an empty table, the choropleth
\* otherwise.
IndiaMap ==
    /\ load_pc = "india_map"
    /\ IF india1_df_pulses = << >>
       THEN /\ messages' = messages \cup {"warning_201"}
            /\ UNCHANGED maps
       ELSE /\ maps' = maps \cup {"fig_india_pulses"}
            /\ UNCHANGED messages
    /\ load_pc' = "state_select"
    /\ UNCHANGED << xl_rows, season, df_pulses_raw, decade_options,
                    selected_decade_range, india1_df_pulses, india1_selected_state,
                    state_geometry >>
    /\ UNCHANGED notLoadVars

\* INDIA1.py 277-292: the state dropdown offers "None" and the states of df_pulses.
StateSelect ==
    /\ load_pc = "state_select"
    /\ india1_selected_state' \in StateOptions(india1_df_pulses)
    /\ load_pc' = "state_map"
    /\ UNCHANGED << xl_rows, season, df_pulses_raw, decade_options,
                    selected_decade_range, india1_df_pulses, messages, maps,
                    state_geometry >>
    /\ UNCHANGED notLoadVars

\* What gdf_districts may hold for a state: no row, rows without a district
\* name, rows with names.
Geometries == {"none", "unnamed", "named"}

\* INDIA1.py 307-543: for a selected state, the warning of 319 when the
\* shapefile has no row for it, the district map and the state's trend
\* otherwise (the state has rows in df_pulses, with numbers, since it was
\* offered).
StateMapSection ==
    /\ load_pc = "state_map"
    /\ IF india1_selected_state = NoneSelected
       THEN UNCHANGED << messages, maps, state_geometry >>
       ELSE \E g \in Geometries :
               /\ state_geometry' = g
               /\ IF g = "none"
                  THEN /\ messages' = messages \cup {"warning_319"}
                       /\ UNCHANGED maps
                  ELSE /\ maps' = maps \cup {"fig_state_districts", "fig_state_trend"}
                       /\ UNCHANGED messages
    /\ load_pc' = "full_map"
    /\ UNCHANGED << xl_rows, season, df_pulses_raw, decade_options,
                    selected_decade_range, india1_df_pulses, india1_selected_state >>
    /\ UNCHANGED notLoadVars

\* INDIA1.py 546-676: one frame per year of df_pulses; the map when there is
\* a frame, the warning of 676 otherwise.
FullMapSection ==
    /\ load_pc = "full_map"
    /\ IF YearsOf(india1_df_pulses) # {}
       THEN /\ maps' = maps \cup {"fig_full_india_districts"}
            /\ UNCHANGED messages
       ELSE /\ messages' = messages \cup {"warning_676"}
            /\ UNCHANGED maps
    /\ load_pc' = "trend"
    /\ UNCHANGED << xl_rows, season, df_pulses_raw, decade_options,
                    selected_decade_range, india1_df_pulses, india1_selected_state,
                    state_geometry >>
    /\ UNCHANGED notLoadVars

\* INDIA1.py 679-779: the simulated trend for a district of the selected
\* state, the messages of 698 and 779 when there is none.
TrendSection ==
    /\ load_pc = "trend"
    /\ IF india1_selected_state # NoneSelected /\ state_geometry = "named"
       THEN /\ maps' = maps \cup {"fig_district_trend_simulated"}
            /\ UNCHANGED messages
       ELSE /\ messages' = messages \cup {"warning_698", "info_779"}
            /\ UNCHANGED maps
    /\ load_pc' = "end"
    /\ UNCHANGED << xl_rows, season, df_pulses_raw, decade_options,
                    selected_decade_range, india1_df_pulses, india1_selected_state,
                    state_geometry >>
    /\ UNCHANGED notLoadVars

NextLoad ==
    \/ Preprocess
    \/ SelectDecade
    \/ IndiaMap
    \/ StateSelect
    \/ StateMapSection
    \/ FullMapSection
    \/ TrendSection

SpecLoad == InitLoad /\ [][NextLoad]_vars

----------------------------------------------------------------------------
(* Claims about the load and the decade filter of INDIA1.py                *)

\* A Year cell that names a year: digits, or a range "YYYY-YY".
NamesYear(cell) == AllDigits(cell) \/ IsYearRange(cell)

\* The rows of the sheet, of the selected season, whose Year cell names a year
\* and whose metric cell is a number.
ConvertibleRows ==
    SelectSeq(xl_rows, LAMBDA r : /\ Lower(r.Season) = Lower(season)
                                  /\ NamesYear(r.Year)
                                  /\ AllDigits(r.Metric))

\* C11: once the sheet is cleaned, no error was raised and the table holds one
\* row for every row of the selected season whose Year and metric cells
\* convert, whatever the other rows hold: a cell that fails conversion costs
\* its own row only.
C11_BadCellDropsOnlyItsRow ==
    load_pc \notin {"idle", "try"} =>
        /\ "error_273" \notin messages
        /\ Len(df_pulses_raw) = Len(ConvertibleRows)

\* The years a decade string "ssss-eeee" shows, read by position.
ShownStart(range) == IntVal(SubSeq(range, 1, 4))

ShownEnd(range) == IntVal(SubSeq(range, 6, 9))

\* C12: when a decade "s-e" was chosen and filtered by, df_pulses is the cleaned
\* table restricted to the rows with s <= Year <= e, in order: every year of
\* the source in the range appears and no year outside it.
C12_DecadeFilterIsExact ==
    (load_pc \in {"india_map", "state_select", "state_map", "full_map", "trend", "end"}
        /\ selected_decade_range # << >> /\ "error_273" \notin messages) =>
        /\ Len(selected_decade_range) = 9
        /\ selected_decade_range[5] = "-"
        /\ india1_df_pulses =
              SelectSeq(df_pulses_raw,
                        LAMBDA r : /\ ShownStart(selected_decade_range) <= r.Year
                                   /\ r.Year <= ShownEnd(selected_decade_range))
        /\ YearsOf(india1_df_pulses) =
              {y \in YearsOf(df_pulses_raw) :
                  /\ ShownStart(selected_decade_range) <= y
                  /\ y <= ShownEnd(selected_decade_range)}

\* C12 witness: of two decades offered, the one chosen keeps a row whose year
\* is the decade's last and drops a row of the other decade; the map is drawn.
C12_Witness ==
    /\ load_pc = "end"
    /\ Len(decade_options) >= 2
    /\ Len(india1_df_pulses) = 1
    /\ Len(df_pulses_raw) = 2
    /\ india1_df_pulses[1].Year = ShownEnd(selected_decade_range)
    /\ "fig_india_pulses" \in maps

\* C13: when the sheet has at most one row per (Season, State, Year) as it
\* spells them, and no negative metric, then df_pulses has at most one row per
\* (State, Year) and no negative value.
C13_OneRowPerStateAndYear ==
    (\A i, j \in DOMAIN xl_rows :
        (/\ xl_rows[i].Season = xl_rows[j].Season
         /\ xl_rows[i].State = xl_rows[j].State
         /\ xl_rows[i].Year = xl_rows[j].Year) => i = j)
    => /\ \A i, j \in DOMAIN india1_df_pulses :
             (/\ india1_df_pulses[i].State = india1_df_pulses[j].State
              /\ india1_df_pulses[i].Year = india1_df_pulses[j].Year) => i = j
       /\ \A i \in DOMAIN india1_df_pulses : india1_df_pulses[i].Value.val >= 0

----------------------------------------------------------------------------
(* numpy's global random stream over the reruns of INDIA1.py               *)

\* How often the script runs in the sessions tried.
MaxRuns == 3

\* The most dirichlet calls of one run tried.
MaxDrawsPerRun == 2

\* INDIA1.py 703: np.random.seed(42)
TrendSeed == 42

\* INDIA1.py 702: np.arange(2000, 2024)
SimStart == 2000

SimStop == 2024

\* The states the generator may start a process in (seeded by the system).
EntropySeeds == {1, 2}

\* The state of a generator: how it was seeded and how many variates it has
\* given since.  What it gives next is a function of this state alone.
RandomState(kind, seed, pos) == [kind |-> kind, seed |-> seed, pos |-> pos]

\* np.random.seed left out: the generator stays as it is.
SeedIgnored(state, seed) == state

\* np.random.seed(seed) on the global generator.
Seed(state, seed) == RandomState("seed", seed, 0)

\* The next n variates of a generator: each is named by the state it is
\* drawn in.
Variates(state, n) ==
    [i \in 1..n |-> RandomState(state.kind, state.seed, state.pos + i - 1)]

\* The generator after n variates.
Advance(state, n) == RandomState(state.kind, state.seed, state.pos + n)

\* INDIA1.py 702
years_simulated == [i \in 1..(SimStop - SimStart) |-> SimStart + i - 1]

\* The districts offered for the trend, None when no state is selected.
TrendDistricts == {DistrictNames[1], DistrictNames[2], PyNone}

InitRng ==
    /\ \E e \in EntropySeeds : np_random_state = RandomState("entropy", e, 0)
    /\ run_no = 1
    /\ draws_this_run = 0
    /\ proportions = << >>
    /\ selected_district_for_line_plot = PyNone
    /\ district_trend_simulated_df = << >>
    /\ rng_pc = "maps"
    /\ NormIdle
    /\ FabIdle
    /\ AppIdle
    /\ YearIdle
    /\ LoadIdle
    /\ SessIdle
    /\ ColIdle
    /\ DecIdle

\* INDIA1.py 350, 588: np.random.dirichlet(np.ones(n_districts)) draws from the
\* global generator.
np_random_dirichlet ==
    /\ rng_pc = "maps"
    /\ draws_this_run < MaxDrawsPerRun
    /\ \E n \in 1..MaxDistricts :
          /\ proportions' = Variates(np_random_state, n)
          /\ np_random_state' = Advance(np_random_state, n)
    /\ draws_this_run' = draws_this_run + 1
    /\ UNCHANGED << run_no, selected_district_for_line_plot,
                    district_trend_simulated_df, rng_pc >>
    /\ UNCHANGED notRngVars

\* INDIA1.py 685-698: the district for the trend is chosen, None without a
\* selected state.
SelectDistrict ==
    /\ rng_pc = "maps"
    /\ selected_district_for_line_plot' \in TrendDistricts
    /\ rng_pc' = "trend"
    /\ UNCHANGED << np_random_state, run_no, draws_this_run, proportions,
                    district_trend_simulated_df >>
    /\ UNCHANGED notRngVars

\* INDIA1.py 700-711: for a selected district the global generator is seeded
\* and gives one value per simulated year.
SimulatedTrend ==
    /\ rng_pc = "trend"
    /\ IF selected_district_for_line_plot # PyNone
       THEN LET seeded == Seed(np_random_state, TrendSeed)
                random_values_simulated == Variates(seeded, Len(years_simulated))
            IN  /\ district_trend_simulated_df' =
                      [i \in DOMAIN years_simulated |->
                          [Year |-> years_simulated[i],
                           Value |-> random_values_simulated[i],
                           District |-> selected_district_for_line_plot]]
                /\ np_random_state' = Advance(seeded, Len(years_simulated))
       ELSE UNCHANGED << district_trend_simulated_df, np_random_state >>
    /\ rng_pc' = "end"
    /\ UNCHANGED << run_no, draws_this_run, proportions,
                    selected_district_for_line_plot >>
    /\ UNCHANGED notRngVars

\* A user interaction reruns the script: its variables start afresh, the
\* process and with it numpy's global generator stay.
RerunScript ==
    /\ rng_pc = "end"
    /\ run_no < MaxRuns
    /\ run_no' = run_no + 1
    /\ draws_this_run' = 0
    /\ proportions' = << >>
    /\ selected_district_for_line_plot' = PyNone
    /\ district_trend_simulated_df' = << >>
    /\ rng_pc' = "maps"
    /\ UNCHANGED np_random_state
    /\ UNCHANGED notRngVars

NextRng ==
    \/ np_random_dirichlet
    \/ SelectDistrict
    \/ SimulatedTrend
    \/ RerunScript

SpecRng == InitRng /\ [][NextRng]_vars

\* C14: rendering the simulated trend leaves the generator the disaggregation
\* draws from as it was.
C14_TrendLeavesDisaggregationStream ==
    [][(rng_pc = "trend" /\ rng_pc' = "end") => np_random_state' = np_random_state]_vars

\* C15: whenever the trend of a district is rendered, it holds the years
\* 2000..2023 in order, each with the value the generator seeded with 42 gives
\* at that position, whatever was drawn before in this run or earlier ones.
C15_TrendIsStable ==
    district_trend_simulated_df # << >> =>
        /\ Len(district_trend_simulated_df) = 24
        /\ \A i \in DOMAIN district_trend_simulated_df :
              /\ district_trend_simulated_df[i].Year = 1999 + i
              /\ district_trend_simulated_df[i].Value = [kind |-> "seed", seed |-> 42, pos |-> i - 1]
              /\ district_trend_simulated_df[i].District = selected_district_for_line_plot

\* C15 witness: the trend is rendered in a third run, after dirichlet draws in
\* this run and a generator that earlier runs left elsewhere.
C15_Witness ==
    /\ run_no = 3
    /\ rng_pc = "end"
    /\ draws_this_run = 2
    /\ district_trend_simulated_df # << >>
    /\ proportions # << >>
    /\ proportions[1].kind = "seed"
    /\ proportions[1].pos > 24

----------------------------------------------------------------------------
(* A session: reruns of one script, the files it reads, st.cache_data      *)

\* How often the script runs in the sessions tried.
MaxSessRuns == 3

\* app1.py 16-30
PULSE_FILES ==
    << << "P","u","l","s","e","s","_","D","a","t","a",".","x","l","s","x"," ","-"," ","A","r","h","a","r",".","c","s","v" >>,
       << "P","u","l","s","e","s","_","D","a","t","a",".","x","l","s","x"," ","-"," ","G","r","a","m",".","c","s","v" >>,
       << "P","u","l","s","e","s","_","D","a","t","a",".","x","l","s","x"," ","-"," ","U","r","a","d",".","c","s","v" >>,
       << "P","u","l","s","e","s","_","D","a","t","a",".","x","l","s","x"," ","-"," ","M","o","o","n","g",".","c","s","v" >>,
       << "P","u","l","s","e","s","_","D","a","t","a",".","x","l","s","x"," ","-"," ","M","a","s","o","o","r",".","c","s","v" >>,
       << "P","u","l","s","e","s","_","D","a","t","a",".","x","l","s","x"," ","-"," ","M","o","t","h",".","c","s","v" >>,
       << "P","u","l","s","e","s","_","D","a","t","a",".","x","l","s","x"," ","-"," ","K","u","l","t","h","i",".","c","s","v" >>,
       << "P","u","l","s","e","s","_","D","a","t","a",".","x","l","s","x"," ","-"," ","K","h","e","s","a","r","i",".","c","s","v" >>,
       << "P","u","l","s","e","s","_","D","a","t","a",".","x","l","s","x"," ","-"," ","P","e","a","s",".","c","s","v" >>,
       << "P","u","l","s","e","s","_","D","a","t","a",".","x","l","s","x"," ","-"," ","T","o","t","a","l"," ","K","h","a","r","i","f"," ","p","u","l","s","e","s",".","c","s","v" >>,
       << "P","u","l","s","e","s","_","D","a","t","a",".","x","l","s","x"," ","-"," ","T","o","t","a","l"," ","R","a","b","i"," ","p","u","l","s","e","s",".","c","s","v" >>,
       << "P","u","l","s","e","s","_","D","a","t","a",".","x","l","s","x"," ","-"," ","T","o","t","a","l"," ","p","u","l","s","e","s",".","c","s","v" >> >>

\* app1.py 12, 82: os.path.join(DATA_DIR, file_name) names the file; the
\* directory is the same for all.
PulseFileSet == {PULSE_FILES[i] : i \in DOMAIN PULSE_FILES}

\* INDIA1.py 88, 104, 135: the files INDIA1 reads.
INDIA_ST_SHP == << "I","n","d","i","a","_","S","h","a","p","e","f","i","l","e","/","i","n","d","i","a","_","s","t",".","s","h","p" >>

DIST_SHP == << "I","n","d","i","a","_","S","h","a","p","e","f","i","l","e","/","S","t","a","t","e","/","2","0","1","1","_","D","i","s","t",".","s","h","p" >>

PULSES_XLSX == << "D","a","t","a","/","P","u","l","s","e","s","_","D","a","t","a",".","x","l","s","x" >>

India1Files == {INDIA_ST_SHP, DIST_SHP, PULSES_XLSX}

AllFiles == PulseFileSet \cup India1Files

\* The functions under @st.cache_data (INDIA1.py 87, 98; app1.py 77, 132).
Loaders == {"load_india_states_geojson", "load_india_districts_shapefile",
            "load_data", "load_geojson"}

\* str.replace(sub, ""): every occurrence of sub removed, left to right.
RECURSIVE RemoveAll(_, _)
RemoveAll(s, sub) ==
    IF Len(s) < Len(sub) THEN s
    ELSE IF SubSeq(s, 1, Len(sub)) = sub
         THEN RemoveAll(SubSeq(s, Len(sub) + 1, Len(s)), sub)
    ELSE << Head(s) >> \o RemoveAll(Tail(s), sub)

\* app1.py 91: the pulse type / season a file name stands for.
PulseTypeOf ==
    [f \in PulseFileSet |->
        Strip(RemoveAll(RemoveAll(f, SubSeq(PULSE_FILES[1], 1, 19)),
                        << ".", "c", "s", "v" >>))]

\* An object of the run: its value, how often it was written in place, and
\* the cached function whose stored object it is ("" for an object of its own).
Object(value) == [alias |-> "", value |-> value, writes |-> 0]

\* What st.cache_data holds for a function: nothing yet, or the stored result.
Miss(empty) == [hit |-> FALSE, value |-> empty, writes |-> 0]

Stored(value) == [hit |-> TRUE, value |-> value, writes |-> 0]

\* The cache handing out the stored object itself.
CacheReturnsStoredObject(loader, entry) ==
    [alias |-> loader, value |-> entry.value, writes |-> entry.writes]

\* st.cache_data gives every caller a copy of the stored result.
CacheReturn(loader, entry) == Object(entry.value)

\* An assignment into an object (df[col] = ...): the object is written.
WriteInPlace(object, value) ==
    [object EXCEPT !.value = value, !.writes = @ + 1]

\* The cache after an object was written in place: the stored result changes
\* when the object is the stored one.
CacheAfterWrite(cache, object, value) ==
    IF object.alias = "" THEN cache
    ELSE [cache EXCEPT ![object.alias].value = value, ![object.alias].writes = @ + 1]

\* What the two shapefiles hold in the sessions tried.
StatesShapefile == << << "G","o","a" >>, STATE_NAME_CORRECTIONS[1][1] >>

DistrictsShapefile ==
    << [ST_NM |-> << "G","o","a" >>, DISTRICT |-> DistrictNames[1]],
       [ST_NM |-> << "I","n","d","i","a" >>, DISTRICT |-> NullName] >>

\* INDIA1.py 88-96: the body of load_india_states_geojson.
load_india_states_geojson_body ==
    [i \in DOMAIN StatesShapefile |-> NormalizeStateName(StatesShapefile[i])]

\* INDIA1.py 99-108: the body of load_india_districts_shapefile.
load_india_districts_shapefile_body ==
    [i \in DOMAIN DistrictsShapefile |->
        [ST_NM |-> NormalizeDistrictStateName(DistrictsShapefile[i].ST_NM),
         DISTRICT |-> DistrictsShapefile[i].DISTRICT]]

\* INDIA1.py 115: gdf_districts[gdf_districts["ST_NM"] != "INDIA"]
WithoutIndia(table) ==
    SelectSeq(table, LAMBDA r : r.ST_NM # << "I","N","D","I","A" >>)

\* The years one CSV file has rows for: csv_years, and for the file of Urad
\* (the last of the sorted pulse types) only the first of them, so that the
\* pulse types differ in their years.
YearsOfFile(f) ==
    IF f = PULSE_FILES[3] /\ csv_years # << >> THEN << Head(csv_years) >> ELSE csv_years

\* app1.py 88-121: the rows one CSV file gives after the preprocessing.
FileRows(f) ==
    [i \in DOMAIN YearsOfFile(f) |->
        [State |-> MapState(csv_state),
         Pulse_Type_Season |-> PulseTypeOf[f],
         Year |-> YearsOfFile(f)[i]]]

\* The body of load_data going on to the next file after a missing one.
LoadDataSkippingMissing(i, all_dfs, read) ==
    LET present == SelectSeq(PULSE_FILES, LAMBDA f : f \in files_present)
    IN  [error |-> present # PULSE_FILES,
         table |-> Concat([k \in DOMAIN present |-> FileRows(present[k])]),
         read |-> {present[k] : k \in DOMAIN present}]

\* app1.py 80-131: the body of load_data from the i-th file on: the error of
\* line 84 and an empty table at the first file that does not exist, the
\* concatenation of the files' rows otherwise.
RECURSIVE LoadDataFrom(_, _, _)
LoadDataFrom(i, all_dfs, read) ==
    IF i > Len(PULSE_FILES)
    THEN [error |-> FALSE, table |-> Concat(all_dfs), read |-> read]
    ELSE IF PULSE_FILES[i] \notin files_present
         THEN [error |-> TRUE, table |-> << >>, read |-> read]
    ELSE LoadDataFrom(i + 1, Append(all_dfs, FileRows(PULSE_FILES[i])),
                      read \cup {PULSE_FILES[i]})

load_data_body == LoadDataFrom(1, << >>, {})

\* The ST_NM of the features of the GeoJSON, when it can be fetched.
GeoJsonFeatureNames == { << "G","o","a" >>, STATE_NAME_MAPPING[10][2] }

NoGeoJson == [loaded |-> FALSE, names |-> {}]

\* app1.py 133-141: the body of load_geojson: the GeoJSON, or None.
load_geojson_body ==
    IF geojson_fetched THEN [loaded |-> TRUE, names |-> GeoJsonFeatureNames]
    ELSE NoGeoJson

\* The CSV contents and the files on disk tried for app1: every file there,
\* one missing, none there.
CsvStates == { << "G","o","a" >>, STATE_NAME_MAPPING[10][1] }

CsvYearLists == { << 2000 >>, << 2000, 2001 >>, << 2000, 2002 >> }

FilesPresentChoices ==
    {PulseFileSet, {}} \cup {PulseFileSet \ {f} : f \in PulseFileSet}

NoSessionState == [keys |-> {}, playing |-> FALSE, current_year_idx |-> 0]

InitSess ==
    /\ script \in {"INDIA1", "app1"}
    /\ IF script = "INDIA1"
       THEN /\ files_present = India1Files
            /\ csv_state = << >>
            /\ csv_years = << >>
            /\ geojson_fetched = FALSE
       ELSE /\ files_present \in FilesPresentChoices
            /\ csv_state \in CsvStates
            /\ csv_years \in CsvYearLists
            /\ geojson_fetched \in BOOLEAN
    /\ file_reads = [f \in AllFiles |-> 0]
    /\ cache_data =
          [l \in Loaders |-> IF l = "load_geojson" THEN Miss(NoGeoJson) ELSE Miss(<< >>)]
    /\ body_runs = [l \in Loaders |-> 0]
    /\ sess_run = 1
    /\ trigger = "none"
    /\ sess_pc = "start"
    /\ run_df_combined = Object(<< >>)
    /\ run_geojson_data = NoGeoJson
    /\ run_gdf_districts = Object(<< >>)
    /\ session_state = NoSessionState
    /\ selected_pulse_type_season = PyNone
    /\ run_years = << >>
    /\ year_slider_value = 0
    /\ sess_messages = {}
    /\ sess_rendered = {}
    /\ animated_years = << >>
    /\ NormIdle
    /\ FabIdle
    /\ AppIdle
    /\ YearIdle
    /\ LoadIdle
    /\ RngIdle
    /\ ColIdle
    /\ DecIdle

\* A call of a function under @st.cache_data: the body runs and its result
\* is stored when nothing is stored for it yet; the caller gets the stored result.
CacheAfterCall(loader, result) ==
    IF cache_data[loader].hit THEN cache_data
    ELSE [cache_data EXCEPT ![loader] = Stored(result)]

BodyRunsAfterCall(loader) ==
    IF cache_data[loader].hit THEN body_runs
    ELSE [body_runs EXCEPT ![loader] = @ + 1]

ReadsAfterCall(loader, files) ==
    IF cache_data[loader].hit THEN file_reads
    ELSE [f \in AllFiles |-> IF f \in files THEN file_reads[f] + 1 ELSE file_reads[f]]

CallResult(loader, result) == CacheReturn(loader, CacheAfterCall(loader, result)[loader])

\* INDIA1.py 111: india_states_geojson = load_india_states_geojson()
CallLoadStates ==
    /\ script = "INDIA1"
    /\ sess_pc = "start"
    /\ cache_data' = CacheAfterCall("load_india_states_geojson", load_india_states_geojson_body)
    /\ body_runs' = BodyRunsAfterCall("load_india_states_geojson")
    /\ file_reads' = ReadsAfterCall("load_india_states_geojson", {INDIA_ST_SHP})
    /\ sess_pc' = "districts"
    /\ UNCHANGED << animated_years, script, files_present, csv_state, csv_years, geojson_fetched,
                    sess_run, trigger, run_df_combined, run_geojson_data,
                    run_gdf_districts, session_state, selected_pulse_type_season,
                    run_years, year_slider_value, sess_messages, sess_rendered >>
    /\ UNCHANGED notSessVars

\* INDIA1.py 112-115: gdf_districts = load_india_districts_shapefile(), then
\* the rows of "INDIA" filtered out into a new table.
CallLoadDistricts ==
    /\ script = "INDIA1"
    /\ sess_pc = "districts"
    /\ cache_data' = CacheAfterCall("load_india_districts_shapefile",
                                    load_india_districts_shapefile_body)
    /\ body_runs' = BodyRunsAfterCall("load_india_districts_shapefile")
    /\ file_reads' = ReadsAfterCall("load_india_districts_shapefile", {DIST_SHP})
    /\ run_gdf_districts' =
          Object(WithoutIndia(CallResult("load_india_districts_shapefile",
                                         load_india_districts_shapefile_body).value))
    /\ sess_pc' = "excel"
    /\ UNCHANGED << animated_years, script, files_present, csv_state, csv_years, geojson_fetched,
                    sess_run, trigger, run_df_combined, run_geojson_data,
                    session_state, selected_pulse_type_season,
                    run_years, year_slider_value, sess_messages, sess_rendered >>
    /\ UNCHANGED notSessVars

\* INDIA1.py 132-138: pd.read_excel in the script body, under no cache.
ReadExcel ==
    /\ script = "INDIA1"
    /\ sess_pc = "excel"
    /\ file_reads' = [file_reads EXCEPT ![PULSES_XLSX] = @ + 1]
    /\ sess_pc' = "full_map"
    /\ UNCHANGED << animated_years, script, files_present, csv_state, csv_years, geojson_fetched,
                    cache_data, body_runs, sess_run, trigger, run_df_combined,
                    run_geojson_data, run_gdf_districts, session_state,
                    selected_pulse_type_season, run_years, year_slider_value,
                    sess_messages, sess_rendered >>
    /\ UNCHANGED notSessVars

\* INDIA1.py 567-598: the frames of the full map are copies of gdf_districts,
\* and the columns Dummy_Value and Year are assigned into the copies.
BuildFrames ==
    /\ script = "INDIA1"
    /\ sess_pc = "full_map"
    /\ LET temp_gdf_districts_year_ == Object(run_gdf_districts.value)
       IN  cache_data' = CacheAfterWrite(cache_data, temp_gdf_districts_year_,
                                         temp_gdf_districts_year_.value)
    /\ sess_rendered' = sess_rendered \cup {"fig_full_india_districts"}
    /\ sess_pc' = "end"
    /\ UNCHANGED << animated_years, script, files_present, csv_state, csv_years, geojson_fetched,
                    file_reads, body_runs, sess_run, trigger, run_df_combined,
                    run_geojson_data, run_gdf_districts, session_state,
                    selected_pulse_type_season, run_years, year_slider_value,
                    sess_messages >>
    /\ UNCHANGED notSessVars

\* app1.py 147: df_combined = load_data().  The st.error of line 84 is shown
\* when the body runs; whether a cache hit shows it again is the library's
\* choice.
CallLoadData ==
    /\ script = "app1"
    /\ sess_pc = "start"
    /\ cache_data' = CacheAfterCall("load_data", load_data_body.table)
    /\ body_runs' = BodyRunsAfterCall("load_data")
    /\ file_reads' = ReadsAfterCall("load_data", load_data_body.read)
    /\ run_df_combined' = CallResult("load_data", load_data_body.table)
    /\ IF load_data_body.error
       THEN IF cache_data["load_data"].hit
            THEN \E replay \in BOOLEAN :
                    sess_messages' = IF replay THEN sess_messages \cup {"error_84"}
                                     ELSE sess_messages
            ELSE sess_messages' = sess_messages \cup {"error_84"}
       ELSE UNCHANGED sess_messages
    /\ sess_pc' = "geojson"
    /\ UNCHANGED << animated_years, script, files_present, csv_state, csv_years, geojson_fetched,
                    sess_run, trigger, run_geojson_data, run_gdf_districts,
                    session_state, selected_pulse_type_season, run_years,
                    year_slider_value, sess_rendered >>
    /\ UNCHANGED notSessVars

\* app1.py 148: geojson_data = load_geojson()
CallLoadGeojson ==
    /\ script = "app1"
    /\ sess_pc = "geojson"
    /\ cache_data' = CacheAfterCall("load_geojson", load_geojson_body)
    /\ body_runs' = BodyRunsAfterCall("load_geojson")
    /\ run_geojson_data' = CallResult("load_geojson", load_geojson_body).value
    /\ sess_pc' = "check"
    /\ UNCHANGED << animated_years, script, files_present, csv_state, csv_years, geojson_fetched,
                    file_reads, sess_run, trigger, run_df_combined, run_gdf_districts,
                    session_state, selected_pulse_type_season, run_years,
                    year_slider_value, sess_messages, sess_rendered >>
    /\ UNCHANGED notSessVars

\* app1.py 150-151: st.stop() when the table is empty or the GeoJSON is None.
StopIfNoData ==
    /\ script = "app1"
    /\ sess_pc = "check"
    /\ run_df_combined.value = << >> \/ ~run_geojson_data.loaded
    /\ sess_pc' = "stopped"
    /\ UNCHANGED << animated_years, script, files_present, csv_state, csv_years, geojson_fetched,
                    file_reads, cache_data, body_runs, sess_run, trigger,
                    run_df_combined, run_geojson_data, run_gdf_districts,
                    session_state, selected_pulse_type_season, run_years,
                    year_slider_value, sess_messages, sess_rendered >>
    /\ UNCHANGED notSessVars

\* app1.py 153-163: the State column is assigned into df_combined (astype(str)
\* leaves the names as they are), then df_combined becomes a new, filtered table.
StandardizeAndFilter ==
    /\ script = "app1"
    /\ sess_pc = "check"
    /\ ~(run_df_combined.value = << >> \/ ~run_geojson_data.loaded)
    /\ cache_data' = CacheAfterWrite(cache_data, run_df_combined, run_df_combined.value)
    /\ run_df_combined' =
          Object(FilterByStandardizedNames(
                    WriteInPlace(run_df_combined, run_df_combined.value).value,
                    run_geojson_data.names))
    /\ sess_pc' = "controls"
    /\ UNCHANGED << animated_years, script, files_present, csv_state, csv_years, geojson_fetched,
                    file_reads, body_runs, sess_run, trigger, run_geojson_data,
                    run_gdf_districts, session_state, selected_pulse_type_season,
                    run_years, year_slider_value, sess_messages, sess_rendered >>
    /\ UNCHANGED notSessVars

\* The order of the characters of the pulse types, as Python compares them:
\* the space, the upper-case letters, the lower-case letters.
Ord(c) ==
    IF c = " " THEN 0
    ELSE IF IsUpper(c) THEN CHOOSE i \in DOMAIN UpperCase : UpperCase[i] = c
    ELSE 26 + (CHOOSE i \in DOMAIN LowerCase : LowerCase[i] = c)

\* a < b for strings.
RECURSIVE StrLess(_, _)
StrLess(a, b) ==
    IF b = << >> THEN FALSE
    ELSE IF a = << >> THEN TRUE
    ELSE IF Head(a) = Head(b) THEN StrLess(Tail(a), Tail(b))
    ELSE Ord(Head(a)) < Ord(Head(b))

\* sorted() of a set of strings.
RECURSIVE SortedStrings(_)
SortedStrings(S) ==
    IF S = {} THEN << >>
    ELSE LET least == CHOOSE x \in S : \A y \in S \ {x} : StrLess(x, y)
         IN  << least >> \o SortedStrings(S \ {least})

\* app1.py 170
pulse_types_seasons(table) ==
    SortedStrings({table[i].Pulse_Type_Season : i \in DOMAIN table})

\* app1.py 178
df_filtered_pulse(table, selected) ==
    SelectSeq(table, LAMBDA r : r.Pulse_Type_Season = selected)

\* list.index(value), from 0; the length of the list when the value is not
\* in it (where Python raises ValueError).
IndexOf(list, value) ==
    IF \E i \in DOMAIN list : list[i] = value
    THEN (CHOOSE i \in DOMAIN list : list[i] = value /\ \A j \in 1..(i - 1) : list[j] # value) - 1
    ELSE Len(list)

\* The index moving on by two.
NextYearIdxSkipping(idx, n) == IF idx + 2 >= n THEN 0 ELSE idx + 2

\* app1.py 280-284: the index of the next year, back to 0 after the last.
NextYearIdx(idx, n) == IF idx + 1 >= n THEN 0 ELSE idx + 1

\* app1.py 166-201: the sidebar selections, the session state's defaults, the
\* list of years; the warning of 200 and st.stop() when there is no year.
\* The selectbox shows its first option until the user selects (the first or
\* the last option, in the sessions tried) and keeps the selection over reruns.
SidebarControls ==
    /\ script = "app1"
    /\ sess_pc = "controls"
    /\ LET options == pulse_types_seasons(run_df_combined.value)
           offered == {options[i] : i \in DOMAIN options}
       IN  /\ IF options = << >> THEN selected_pulse_type_season' = PyNone
              ELSE IF trigger # "select" /\ selected_pulse_type_season \in offered
                   THEN UNCHANGED selected_pulse_type_season
              ELSE IF trigger # "select"
                   THEN selected_pulse_type_season' = options[1]
              ELSE selected_pulse_type_season' \in {options[1], options[Len(options)]}
           /\ LET filtered == IF options = << >> THEN << >>
                              ELSE df_filtered_pulse(run_df_combined.value,
                                                     selected_pulse_type_season')
              IN  /\ run_years' = Sorted(YearsOf(filtered))
                  /\ IF YearsOf(filtered) = {}
                     THEN /\ sess_messages' = sess_messages \cup {"warning_200"}
                          /\ sess_pc' = "stopped"
                     ELSE /\ UNCHANGED sess_messages
                          /\ sess_pc' = "buttons"
    /\ animated_years' =
          IF selected_pulse_type_season' = selected_pulse_type_season
          THEN animated_years ELSE << >>
    /\ session_state' = [session_state EXCEPT !.keys = {"playing", "current_year_idx"}]
    /\ sess_rendered' = sess_rendered \cup {"selectbox_pulse_type", "selectbox_parameter"}
    /\ UNCHANGED << script, files_present, csv_state, csv_years, geojson_fetched,
                    file_reads, cache_data, body_runs, sess_run, trigger,
                    run_df_combined, run_geojson_data, run_gdf_districts,
                    year_slider_value >>
    /\ UNCHANGED notSessVars

\* app1.py 203-211: a click on Play or Pause, which started this run, sets playing.
PlayPauseButtons ==
    /\ script = "app1"
    /\ sess_pc = "buttons"
    /\ session_state' =
          [session_state EXCEPT !.playing =
              IF trigger = "pause" THEN FALSE
              ELSE IF trigger = "play" THEN TRUE
              ELSE @]
    /\ sess_rendered' = sess_rendered \cup {"button_play", "button_pause"}
    /\ sess_pc' = "slider"
    /\ UNCHANGED << animated_years, script, files_present, csv_state, csv_years, geojson_fetched,
                    file_reads, cache_data, body_runs, sess_run, trigger,
                    run_df_combined, run_geojson_data, run_gdf_districts,
                    selected_pulse_type_season, run_years, year_slider_value,
                    sess_messages >>
    /\ UNCHANGED notSessVars

\* app1.py 213-229: the slider between the first and last year.  Its value is
\* the user's when the slider started the run, else the current year or the
\* value the widget kept; a value other than the current year sets the index
\* to its place in years and stops the playing (ValueError when it is no year
\* of the list, IndexError when the index is past the list).
YearSlider ==
    /\ script = "app1"
    /\ sess_pc = "slider"
    /\ IF session_state.current_year_idx >= Len(run_years)
       THEN /\ sess_pc' = "exception"
            /\ UNCHANGED << session_state, year_slider_value, sess_rendered,
                            animated_years >>
       ELSE LET current_year == run_years[session_state.current_year_idx + 1]
                first == run_years[1]
                last == run_years[Len(run_years)]
            IN  /\ year_slider_value' \in
                      IF trigger = "slider" THEN first..last
                      ELSE {current_year} \cup ({year_slider_value} \cap (first..last))
                /\ sess_rendered' = sess_rendered \cup {"year_slider"}
                /\ IF year_slider_value' # current_year
                   THEN IF IndexOf(run_years, year_slider_value') = Len(run_years)
                        THEN /\ sess_pc' = "exception"
                             /\ UNCHANGED << session_state, animated_years >>
                        ELSE /\ session_state' =
                                   [session_state EXCEPT
                                       !.current_year_idx = IndexOf(run_years, year_slider_value'),
                                       !.playing = FALSE]
                             /\ animated_years' = << >>
                             /\ sess_pc' = "animation"
                   ELSE /\ UNCHANGED << session_state, animated_years >>
                        /\ sess_pc' = "animation"
    /\ UNCHANGED << script, files_present, csv_state, csv_years, geojson_fetched,
                    file_reads, cache_data, body_runs, sess_run, trigger,
                    run_df_combined, run_geojson_data, run_gdf_districts,
                    selected_pulse_type_season, run_years, sess_messages >>
    /\ UNCHANGED notSessVars

\* app1.py 232-284: one pass of the while loop.  The slider of 240-247 has
\* the fixed key "year_slider_animated": Streamlit admits a key once in a run
\* and raises (duplicate element key) when the pass is not the first of the
\* run.  Otherwise the year at the index is drawn (the GeoJSON is there, or
\* the run had stopped at 151) and the index moves on.
AnimationStep ==
    /\ script = "app1"
    /\ sess_pc = "animation"
    /\ session_state.playing
    /\ session_state.current_year_idx < Len(run_years)
    /\ IF "year_slider_animated" \in sess_rendered
       THEN /\ sess_pc' = "exception"
            /\ UNCHANGED << session_state, sess_rendered, animated_years >>
       ELSE /\ LET idx == session_state.current_year_idx % Len(run_years)
               IN  session_state' =
                      [session_state EXCEPT
                          !.current_year_idx = NextYearIdx(idx, Len(run_years))]
            /\ sess_rendered' = sess_rendered \cup {"year_slider_animated", "fig_animated"}
            /\ animated_years' =
                  Append(animated_years,
                         run_years[(session_state.current_year_idx % Len(run_years)) + 1])
            /\ UNCHANGED sess_pc
    /\ UNCHANGED << script, files_present, csv_state, csv_years, geojson_fetched,
                    file_reads, cache_data, body_runs, sess_run, trigger,
                    run_df_combined, run_geojson_data, run_gdf_districts,
                    selected_pulse_type_season, run_years, year_slider_value,
                    sess_messages >>
    /\ UNCHANGED notSessVars

\* app1.py 232, 236, 287-313: the loop is not entered or is left; when not
\* playing, the map of the slider's year is drawn, or the info of 313 when
\* no row has that year.
StaticMap ==
    /\ script = "app1"
    /\ sess_pc = "animation"
    /\ ~(session_state.playing /\ session_state.current_year_idx < Len(run_years))
    /\ IF ~session_state.playing
       THEN IF \E i \in DOMAIN run_years : run_years[i] = year_slider_value
            THEN /\ sess_rendered' = sess_rendered \cup {"fig_static"}
                 /\ UNCHANGED sess_messages
            ELSE /\ sess_messages' = sess_messages \cup {"info_313"}
                 /\ UNCHANGED sess_rendered
       ELSE UNCHANGED << sess_rendered, sess_messages >>
    /\ sess_pc' = "end"
    /\ UNCHANGED << animated_years, script, files_present, csv_state, csv_years, geojson_fetched,
                    file_reads, cache_data, body_runs, sess_run, trigger,
                    run_df_combined, run_geojson_data, run_gdf_districts,
                    session_state, selected_pulse_type_season, run_years,
                    year_slider_value >>
    /\ UNCHANGED notSessVars

\* The interactions that can start a run: a rerun of the page, or a widget
\* the current run has rendered.
Triggers ==
    {"rerun"}
    \cup (IF "button_play" \in sess_rendered THEN {"play", "pause"} ELSE {})
    \cup (IF "year_slider" \in sess_rendered THEN {"slider"} ELSE {})
    \cup (IF "selectbox_pulse_type" \in sess_rendered THEN {"select"} ELSE {})

\* An interaction of the user: the running script is interrupted and run
\* again from its first line; the process (the cache, the files read) and
\* st.session_state with the widgets' values (the selection, the slider) stay.
Rerun ==
    /\ sess_pc \notin {"idle", "start"}
    /\ sess_run < MaxSessRuns
    /\ sess_run' = sess_run + 1
    /\ trigger' \in Triggers
    /\ sess_pc' = "start"
    /\ run_df_combined' = Object(<< >>)
    /\ run_geojson_data' = NoGeoJson
    /\ run_gdf_districts' = Object(<< >>)
    /\ run_years' = << >>
    /\ sess_messages' = {}
    /\ sess_rendered' = {}
    /\ UNCHANGED << animated_years, script, files_present, csv_state, csv_years, geojson_fetched,
                    file_reads, cache_data, body_runs, session_state,
                    selected_pulse_type_season, year_slider_value >>
    /\ UNCHANGED notSessVars

NextSess ==
    \/ CallLoadStates
    \/ CallLoadDistricts
    \/ ReadExcel
    \/ BuildFrames
    \/ CallLoadData
    \/ CallLoadGeojson
    \/ StopIfNoData
    \/ StandardizeAndFilter
    \/ SidebarControls
    \/ PlayPauseButtons
    \/ YearSlider
    \/ AnimationStep
    \/ StaticMap
    \/ Rerun

SpecSess == InitSess /\ [][NextSess]_vars

\* C16: in a session, however many interactions rerun the script, no input
\* file is read more than once.
C16_EachFileReadAtMostOnce ==
    \A f \in AllFiles : file_reads[f] <= 1

\* The part of C16 that the functions under st.cache_data keep: their bodies
\* run once in a session, and the files they read are read once.
CachedLoadersRunOnce ==
    /\ \A l \in Loaders : body_runs[l] <= 1
    /\ \A f \in AllFiles \ {PULSES_XLSX} : file_reads[f] <= 1

\* C17: what st.cache_data holds for a loader is what the loader's body
\* returned and has never been written, in every run of the session.
C17_MemoizedTablesAreNeverWritten ==
    /\ \A l \in Loaders : cache_data[l].writes = 0
    /\ cache_data["load_data"].hit =>
          cache_data["load_data"].value = load_data_body.table
    /\ cache_data["load_geojson"].hit =>
          cache_data["load_geojson"].value = load_geojson_body
    /\ cache_data["load_india_states_geojson"].hit =>
          cache_data["load_india_states_geojson"].value = load_india_states_geojson_body
    /\ cache_data["load_india_districts_shapefile"].hit =>
          cache_data["load_india_districts_shapefile"].value
             = load_india_districts_shapefile_body

\* C17 witness: app1 in a later run, served from the cache, has assigned the
\* State column into its df_combined and filtered it by the GeoJSON's names.
C17_Witness ==
    /\ script = "app1"
    /\ sess_run >= 2
    /\ sess_pc = "controls"
    /\ cache_data["load_data"].hit
    /\ body_runs["load_data"] = 1
    /\ Len(run_df_combined.value) < Len(cache_data["load_data"].value)

\* C18: a pass of the animation loop, in a run that no interaction ends,
\* leaves playing True and the index below the number of years, so that the
\* loop goes on.
C18_LoopStepKeepsLooping ==
    [][(/\ sess_pc = "animation"
        /\ session_state.playing
        /\ session_state.current_year_idx < Len(run_years)
        /\ sess_run' = sess_run)
       => (/\ sess_pc' = "animation"
           /\ session_state'.playing
           /\ session_state'.current_year_idx < Len(run_years'))]_vars

\* What the loop's own assignments keep: no pass sets playing to False or
\* takes the index out of the list of years.
LoopStepKeepsCondition ==
    [][(/\ sess_pc = "animation"
        /\ session_state.playing
        /\ session_state.current_year_idx < Len(run_years)
        /\ sess_run' = sess_run)
       => (/\ session_state'.playing
           /\ session_state'.current_year_idx < Len(run_years'))]_vars

\* A file of PULSE_FILES is not there.
PulseFileMissing == script = "app1" /\ files_present # PulseFileSet

\* C20: when a file of PULSE_FILES is missing, load_data shows the error of
\* line 84 in the run its body runs in and returns the empty table, also when
\* files before the missing one were read; every run stops at st.stop()
\* having rendered no control and no map; the body of load_data runs once in
\* the session and no file is read a second time.
C20_MissingFileStopsTheDashboard ==
    PulseFileMissing =>
        /\ sess_pc \in {"start", "geojson", "check", "stopped"}
        /\ sess_rendered = {}
        /\ run_df_combined.value = << >>
        /\ cache_data["load_data"].hit => cache_data["load_data"].value = << >>
        /\ (sess_run = 1 /\ sess_pc # "start") => "error_84" \in sess_messages
        /\ body_runs["load_data"] <= 1
        /\ \A f \in PulseFileSet : file_reads[f] <= 1

\* C20 witness: the fourth file is missing, the three before it were read, and
\* a later run of the session has stopped without the body running again.
C20_Witness ==
    /\ PulseFileMissing
    /\ files_present = PulseFileSet \ {PULSE_FILES[4]}
    /\ file_reads[PULSE_FILES[3]] = 1
    /\ file_reads[PULSE_FILES[5]] = 0
    /\ sess_run = MaxSessRuns
    /\ sess_pc = "stopped"
    /\ body_runs["load_data"] = 1

----------------------------------------------------------------------------
(* Runs of either script whose filters leave no row                        *)

\* A run of INDIA1 over a sheet, or a session of either script.
SpecEmpty == (InitLoad \/ InitSess) /\ [][NextLoad \/ NextSess]_vars

\* INDIA1: the season, metric and decade filters left df_pulses without a
\* row (no exception was caught), and the run is past the check of line 200.
India1FilteredToNothing ==
    /\ load_pc \in {"state_select", "state_map", "full_map", "trend", "end"}
    /\ india1_df_pulses = << >>
    /\ "error_273" \notin messages

\* app1: the sidebar ran and the selected pulse type / season has no year.
App1FilteredToNothing ==
    /\ script = "app1"
    /\ "selectbox_pulse_type" \in sess_rendered
    /\ run_years = << >>

\* C19: when the filters leave no row, a warning is shown and no map is
\* built: INDIA1 shows the warning of 201, offers no state but "None", builds
\* none of its maps and shows the warning of 676 in place of the full map;
\* app1 shows the warning of 200 and stops with no slider, button or map.
\* No later section raises.
C19_EmptyTableShowsMessageAndNoMap ==
    /\ India1FilteredToNothing =>
          /\ "warning_201" \in messages
          /\ maps = {}
          /\ india1_selected_state \in {<< >>, NoneSelected}
          /\ load_pc \in {"trend", "end"} => "warning_676" \in messages
    /\ App1FilteredToNothing =>
          /\ "warning_200" \in sess_messages
          /\ sess_pc = "stopped"
          /\ sess_rendered = {"selectbox_pulse_type", "selectbox_parameter"}

\* C19 witness: the sheet has rows of the season, the decade chosen holds none
\* of their years, and the run of INDIA1 has reached its end.
C19_Witness ==
    /\ India1FilteredToNothing
    /\ df_pulses_raw # << >>
    /\ selected_decade_range # << >>
    /\ load_pc = "end"

\* The same for app1: the GeoJSON filter left no row of the CSV files, and
\* the run stopped at line 201.
C19_WitnessApp1 ==
    /\ App1FilteredToNothing
    /\ cache_data["load_data"].value # << >>
    /\ run_df_combined.value = << >>
    /\ sess_pc = "stopped"

----------------------------------------------------------------------------
(* INDIA1.py 294-692: the state and district columns of the shapefile      *)

\* sub in s
Contains(s, sub) ==
    \E i \in 1..(Len(s) - Len(sub) + 1) : SubSeq(s, i, i + Len(sub) - 1) = sub

\* What state_col and district_col are initialised to (None).
NoColumn == << PyNone >>

\* INDIA1.py 297: "STATE" in col.upper() or "ST_NM" in col.upper()
IsStateColumn(col) ==
    \/ Contains(Upper(col), << "S","T","A","T","E" >>)
    \/ Contains(Upper(col), << "S","T","_","N","M" >>)

\* INDIA1.py 301: "DISTRICT", "DIST_NAME" or "DIST_NM" in col.upper()
IsDistrictColumn(col) ==
    \/ Contains(Upper(col), << "D","I","S","T","R","I","C","T" >>)
    \/ Contains(Upper(col), << "D","I","S","T","_","N","A","M","E" >>)
    \/ Contains(Upper(col), << "D","I","S","T","_","N","M" >>)

\* INDIA1.py 296-299: the first column of the list that passes the test, or
\* None when the loop ends without a break.
DetectStateColumn(columns) ==
    IF \E i \in DOMAIN columns : IsStateColumn(columns[i])
    THEN columns[CHOOSE i \in DOMAIN columns :
                    /\ IsStateColumn(columns[i])
                    /\ \A j \in 1..(i - 1) : ~IsStateColumn(columns[j])]
    ELSE NoColumn

\* INDIA1.py 300-303
DetectDistrictColumn(columns) ==
    IF \E i \in DOMAIN columns : IsDistrictColumn(columns[i])
    THEN columns[CHOOSE i \in DOMAIN columns :
                    /\ IsDistrictColumn(columns[i])
                    /\ \A j \in 1..(i - 1) : ~IsDistrictColumn(columns[j])]
    ELSE NoColumn

\* The column ST_NM, which the loader and line 115 read, and the columns a
\* district shapefile may have beside it.
ST_NM == << "S","T","_","N","M" >>

ColumnNames ==
    { ST_NM,
      << "D","I","S","T","R","I","C","T" >>,
      << "d","t","n","a","m","e" >>,
      << "S","t","a","t","e","_","L","G","D" >>,
      << "g","e","o","m","e","t","r","y" >> }

ColumnCounts == {1, 2, 3}

\* The column lists tried: distinct names, ST_NM among them.
ColumnLists ==
    UNION { { c \in [1..n -> ColumnNames] :
                /\ \A i, j \in 1..n : i # j => c[i] # c[j]
                /\ \E i \in 1..n : c[i] = ST_NM } : n \in ColumnCounts }

\* df_pulses has rows or not; a state can be selected only from its rows
\* (INDIA1.py 280-292).
InitCol ==
    /\ gdf_columns \in ColumnLists
    /\ col_has_rows \in BOOLEAN
    /\ col_selected_state \in (IF col_has_rows THEN {NoneSelected, GOA} ELSE {NoneSelected})
    /\ state_col = NoColumn
    /\ district_col = NoColumn
    /\ normalized_defined = FALSE
    /\ col_messages = {}
    /\ col_maps = {}
    /\ col_raised = PyNone
    /\ col_pc = "detect"
    /\ NormIdle
    /\ FabIdle
    /\ AppIdle
    /\ YearIdle
    /\ LoadIdle
    /\ RngIdle
    /\ SessIdle
    /\ DecIdle

\* INDIA1.py 294-304: auto detection of the two columns.
DetectColumns ==
    /\ col_pc = "detect"
    /\ state_col' = DetectStateColumn(gdf_columns)
    /\ district_col' = DetectDistrictColumn(gdf_columns)
    /\ col_pc' = "state_map"
    /\ UNCHANGED << gdf_columns, col_has_rows, col_selected_state,
                    normalized_defined, col_messages, col_maps, col_raised >>
    /\ UNCHANGED notColVars

\* INDIA1.py 307-543: for a selected state, the error of 310 when a column
\* was not detected; otherwise normalized_selected_state is assigned (314)
\* and the state's section runs on the detected columns.
ColStateMap ==
    /\ col_pc = "state_map"
    /\ IF col_selected_state = NoneSelected
       THEN UNCHANGED << normalized_defined, col_messages, col_maps >>
       ELSE IF state_col = NoColumn \/ district_col = NoColumn
            THEN /\ col_messages' = col_messages \cup {"error_310"}
                 /\ UNCHANGED << normalized_defined, col_maps >>
            ELSE /\ normalized_defined' = TRUE
                 /\ col_maps' = col_maps \cup {"fig_state_districts"}
                 /\ UNCHANGED col_messages
    /\ col_pc' = "full_map"
    /\ UNCHANGED << gdf_columns, col_has_rows, col_selected_state, state_col,
                    district_col, col_raised >>
    /\ UNCHANGED notColVars

\* INDIA1.py 546-676: with rows in df_pulses, each row's state is looked up
\* by temp_gdf_districts_year[state_col] (582) and its districts by
\* [...][district_col] (584), outside any try: indexing by None raises
\* KeyError.  Without rows, the warning of 676.
ColFullMap ==
    /\ col_pc = "full_map"
    /\ IF col_has_rows
       THEN IF state_col = NoColumn \/ district_col = NoColumn
            THEN /\ col_raised' = "KeyError"
                 /\ col_pc' = "raised"
                 /\ UNCHANGED << col_messages, col_maps >>
            ELSE /\ col_maps' = col_maps \cup {"fig_full_india_districts"}
                 /\ col_pc' = "trend"
                 /\ UNCHANGED << col_messages, col_raised >>
       ELSE /\ col_messages' = col_messages \cup {"warning_676"}
            /\ col_pc' = "trend"
            /\ UNCHANGED << col_maps, col_raised >>
    /\ UNCHANGED << gdf_columns, col_has_rows, col_selected_state, state_col,
                    district_col, normalized_defined >>
    /\ UNCHANGED notColVars

\* INDIA1.py 679-779: for a selected state, gdf_districts[state_col] is
\* compared with normalized_selected_state (686-689): KeyError when state_col
\* is None, NameError when line 314 never ran.  With no state selected, the
\* messages of 698 and 779.
ColTrend ==
    /\ col_pc = "trend"
    /\ IF col_selected_state = NoneSelected
       THEN /\ col_messages' = col_messages \cup {"warning_698", "info_779"}
            /\ col_pc' = "end"
            /\ UNCHANGED << col_maps, col_raised >>
       ELSE IF state_col = NoColumn
            THEN /\ col_raised' = "KeyError"
                 /\ col_pc' = "raised"
                 /\ UNCHANGED << col_messages, col_maps >>
       ELSE IF ~normalized_defined
            THEN /\ col_raised' = "NameError"
                 /\ col_pc' = "raised"
                 /\ UNCHANGED << col_messages, col_maps >>
       ELSE /\ col_maps' = col_maps \cup {"fig_district_trend_simulated"}
            /\ col_pc' = "end"
            /\ UNCHANGED << col_messages, col_raised >>
    /\ UNCHANGED << gdf_columns, col_has_rows, col_selected_state, state_col,
                    district_col, normalized_defined >>
    /\ UNCHANGED notColVars

NextCol ==
    \/ DetectColumns
    \/ ColStateMap
    \/ ColFullMap
    \/ ColTrend

SpecCol == InitCol /\ [][NextCol]_vars

\* C21: a failure becomes a message and the run goes on: no section raises,
\* and when a state is selected and a column was not detected, the error of
\* line 310 is shown and the run reaches its end.
C21_UndetectedColumnDoesNotEndTheRun ==
    /\ col_pc # "raised"
    /\ col_raised = PyNone
    /\ (/\ col_pc \in {"full_map", "trend", "end"}
        /\ col_selected_state # NoneSelected
        /\ (state_col = NoColumn \/ district_col = NoColumn))
       => "error_310" \in col_messages

\* What does hold: the error of 310 is shown at its source.
UndetectedColumnShowsError ==
    (/\ col_pc \in {"full_map", "trend", "end", "raised"}
     /\ col_selected_state # NoneSelected
     /\ (state_col = NoColumn \/ district_col = NoColumn))
    => "error_310" \in col_messages

----------------------------------------------------------------------------
(* app1.py 203-284: the slider, the index and the order of the frames      *)

\* C22: when the slider's value differs from years[current_year_idx], the
\* run sets playing to False and the index to the place of the slider's year
\* and raises nothing, whatever year between min_year and max_year the slider
\* holds.
C22_SliderMoveSetsIndexAndPauses ==
    [][(/\ sess_pc = "slider"
        /\ sess_pc' # "slider"
        /\ sess_run' = sess_run
        /\ session_state.current_year_idx < Len(run_years)
        /\ year_slider_value' # run_years[session_state.current_year_idx + 1])
       => (/\ sess_pc' # "exception"
           /\ ~session_state'.playing
           /\ run_years[session_state'.current_year_idx + 1] = year_slider_value')]_vars

\* What holds of the slider: a value that is one of the years sets the index
\* to its place and stops the playing, also in a run that Play started.
SliderMoveToAYearSetsIndexAndPauses ==
    [][(/\ sess_pc = "slider"
        /\ sess_pc' # "slider"
        /\ sess_run' = sess_run
        /\ session_state.current_year_idx < Len(run_years)
        /\ year_slider_value' # run_years[session_state.current_year_idx + 1]
        /\ \E i \in DOMAIN run_years : run_years[i] = year_slider_value')
       => (/\ sess_pc' = "animation"
           /\ ~session_state'.playing
           /\ run_years[session_state'.current_year_idx + 1] = year_slider_value')]_vars

\* C23: where years[current_year_idx] is read (line 214), the index is an
\* index of years.
C23_IndexIsValidWhereRead ==
    (script = "app1" /\ sess_pc = "slider") =>
        /\ 0 <= session_state.current_year_idx
        /\ session_state.current_year_idx < Len(run_years)

\* The place of a year in the list of years, from 0.
PlaceOf(year) == IndexOf(run_years, year)

----------------------------------------------------------------------------
(* INDIA1.py 156-174: the decade options, generated by the while loop      *)

\* The years tried for the cleaned data, over three decades and with the
\* year 0 among them.
YearPool == {0, 3, 9, 10, 19, 20, 21}

\* A table with a row for each of the years.
RowsOfYears(years) ==
    LET RECURSIVE Build(_)
        Build(S) == IF S = {} THEN << >>
                    ELSE LET y == MinOf(S) IN << [Year |-> y] >> \o Build(S \ {y})
    IN  Build(years)

InitDec ==
    /\ dec_years \in (SUBSET YearPool) \ {{}}
    /\ dec_min_year = 0
    /\ dec_max_year = 0
    /\ dec_current_decade_start = 0
    /\ dec_decade_options = << >>
    /\ dec_pc = "bounds"
    /\ NormIdle
    /\ FabIdle
    /\ AppIdle
    /\ YearIdle
    /\ LoadIdle
    /\ RngIdle
    /\ SessIdle
    /\ ColIdle

\* INDIA1.py 156-167: min_year and max_year of the data, then the loop is
\* entered only if one of them is not 0.
DecadeBounds ==
    /\ dec_pc = "bounds"
    /\ dec_min_year' = min_year(RowsOfYears(dec_years))
    /\ dec_max_year' = max_year(RowsOfYears(dec_years))
    /\ IF dec_min_year' # 0 \/ dec_max_year' # 0
       THEN /\ dec_current_decade_start' = (dec_min_year' \div 10) * 10
            /\ dec_pc' = "loop"
       ELSE /\ UNCHANGED dec_current_decade_start
            /\ dec_pc' = "done"
    /\ UNCHANGED << dec_years, dec_decade_options >>
    /\ UNCHANGED notDecVars

\* INDIA1.py 168-174: one pass of the while loop.
DecadeLoopStep ==
    /\ dec_pc = "loop"
    /\ dec_current_decade_start <= dec_max_year
    /\ LET decade_end == IF dec_current_decade_start + 9 > dec_max_year
                         THEN dec_max_year
                         ELSE dec_current_decade_start + 9
       IN  dec_decade_options' =
              Append(dec_decade_options,
                     StrOfNat(dec_current_decade_start) \o << "-" >> \o StrOfNat(decade_end))
    /\ dec_current_decade_start' = dec_current_decade_start + 10
    /\ UNCHANGED << dec_years, dec_min_year, dec_max_year, dec_pc >>
    /\ UNCHANGED notDecVars

\* INDIA1.py 168: the loop's condition is false.
DecadeLoopExit ==
    /\ dec_pc = "loop"
    /\ ~(dec_current_decade_start <= dec_max_year)
    /\ dec_pc' = "done"
    /\ UNCHANGED << dec_years, dec_min_year, dec_max_year, dec_current_decade_start,
                    dec_decade_options >>
    /\ UNCHANGED notDecVars

NextDec ==
    \/ DecadeBounds
    \/ DecadeLoopStep
    \/ DecadeLoopExit

SpecDec == InitDec /\ [][NextDec]_vars

\* The decade options partition the span of the years: they start at the
\* multiple of 10 at or below min_year, follow each other ten years apart,
\* each but the last ends nine years after its start, the last ends at
\* max_year, and every year of the data lies in exactly one of them.
OptionsPartitionTheYears ==
    LET n == Len(dec_decade_options)
        S(i) == start_year_decade(dec_decade_options[i])
        E(i) == end_year_decade(dec_decade_options[i])
    IN  /\ n >= 1
        /\ \A i \in 1..n : ~DecadeRaises(dec_decade_options[i])
        /\ S(1) = (MinOf(dec_years) \div 10) * 10
        /\ \A i \in 1..n : S(i) % 10 = 0
        /\ \A i \in 1..(n - 1) : S(i + 1) = S(i) + 10 /\ E(i) = S(i) + 9
        /\ E(n) = MaxOf(dec_years)
        /\ \A y \in dec_years :
              Cardinality({i \in 1..n : S(i) <= y /\ y <= E(i)}) = 1

\* The loop ends: it has made no more passes than there are decades between
\* the first start and max_year, and the stepwise loop gives the options of
\* DecadeOptions.
LoopIsBounded ==
    /\ dec_pc = "loop" =>
          Len(dec_decade_options) <= ((dec_max_year - (dec_min_year \div 10) * 10) \div 10) + 1
    /\ dec_pc = "done" => dec_decade_options = DecadeOptions(RowsOfYears(dec_years))

\* C25: for every cleaned data with years, the generated decade options
\* partition the span of its years, and the generating loop ends.
C25_DecadesPartitionTheYears ==
    /\ LoopIsBounded
    /\ dec_pc = "done" => OptionsPartitionTheYears

\* What holds: the same for every data with a year other than 0.
DecadesPartitionTheYearsButZero ==
    /\ LoopIsBounded
    /\ (dec_pc = "done" /\ dec_years # {0}) => OptionsPartitionTheYears
====
